---------------------------- MODULE Spec2Model ----------------------------
(***************************************************************************)
(* Invoice generation and unbilled-hours aggregation of the time-tracking  *)
(* backend (clients/dts/time-tracking-app/backend/db_helper.py), with its  *)
(* timesheet writes, invoice status and client updates, the routes that    *)
(* call them (backend/app/routes) and the desktop helper's counterparts    *)
(* (projects/dts/time-tracking-app/src/db_helper.py).                      *)
(*                                                                         *)
(* The store is one SQL Server database.  Every application instance owns  *)
(* one DatabaseHelper with one pyodbc connection (autocommit off), so a    *)
(* statement's writes stay uncommitted on that connection until the next   *)
(* conn.commit() on it; the code never calls rollback.  A row carries the  *)
(* connection whose open transaction wrote it (tx), or Committed.          *)
(*                                                                         *)
(* Dates are day numbers counted from 2024-01-01 (a Monday).  Hours and    *)
(* rates are whole numbers.  A nullable column is <<>> (NULL) or <<v>>.    *)
(***************************************************************************)
EXTENDS Integers, Sequences, FiniteSets, TLC

VARIABLES
    Invoices,                       \* table Invoices (header rows)
    InvoiceLineItems,               \* table InvoiceLineItems
    InvoiceLineItems_TimeEntries,   \* link table line item <-> time entry
    TimeEntries,                    \* table TimeEntries
    identInvoice,                   \* IDENTITY counter of Invoices
    identLineItem,                  \* IDENTITY counter of InvoiceLineItems
    pc,                             \* per connection: position in create_invoice
    frame,                          \* per connection: locals of create_invoice
    ret,                            \* per connection: outcome of its last call
    hist,                           \* per connection: history of its last call
    driver,                         \* what the installation's driver reports (line 665)
    PaymentTerms,                   \* column Clients.PaymentTerms, by ClientID
    identLimit,                     \* the IDENTITY value at which the model stops inserting
    identEntry,                     \* IDENTITY counter of TimeEntries
    dialect,                        \* how the installation's server takes "IS ?" (line 488)
    entryKey,                       \* delete rule of the link table's key on TimeEntries
    DefaultRate,                    \* column Clients.DefaultRate, by ClientID
    last                            \* the last timesheet or client call and its outcome

vars == <<Invoices, InvoiceLineItems, InvoiceLineItems_TimeEntries, TimeEntries,
          identInvoice, identLineItem, pc, frame, ret, hist, driver,
          PaymentTerms, identLimit, identEntry, dialect, entryKey, DefaultRate, last>>

\* what create_invoice and delete_invoice leave alone
others == <<PaymentTerms, identLimit, identEntry, dialect, entryKey, DefaultRate, last>>

-----------------------------------------------------------------------------
(* Bounds of the model *)

\* how many invoice headers are ever inserted (IDENTITY values are not reused)
MaxInvoices == 2

\* application instances, each with its own DatabaseHelper.conn
Conns == {1, 2}

Committed == 0

Null == <<>>

Some(v) == <<v>>

-----------------------------------------------------------------------------
(* Static reference data: Clients and ClientDepartments rows *)

Clients ==
    { [ClientID |-> 1, DefaultRate |-> 100, PaymentTerms |-> 30, Active |-> TRUE],
      [ClientID |-> 2, DefaultRate |-> 50,  PaymentTerms |-> 0,  Active |-> TRUE],
      [ClientID |-> 3, DefaultRate |-> 60,  PaymentTerms |-> 15, Active |-> FALSE] }

ClientDepartments ==
    { [ClientDepartmentID |-> 1, ClientID |-> 1, BillingRate |-> Some(75)] }

\* ledgers left by earlier timesheet saves; week anchors are Mondays
Entry(id, client, dept, week, day, hours, rate) ==
    [EntryID |-> id, ClientID |-> client, ClientDepartmentID |-> dept,
     WeekStartDate |-> week, DayOfWeek |-> day, HoursWorked |-> hours,
     RateUsed |-> rate]

InitialLedgers ==
    { { Entry(1, 1, Null, 0, 1, 8, Some(100)),
        Entry(2, 1, Some(1), 0, 3, 4, Null) },
      { Entry(1, 1, Null, 0, 1, 6, Null),
        Entry(2, 2, Null, 7, 7, 4, Some(90)) } }

-----------------------------------------------------------------------------
(* Summation helpers *)

RECURSIVE SumSeq(_)
\* Python's sum(...) over a list of numbers, left to right
SumSeq(s) ==
    IF s = <<>> THEN 0 ELSE Head(s) + SumSeq(Tail(s))

RECURSIVE SumOver(_, _)
\* SQL SUM(f) over the rows S, f a function on the rows
SumOver(f, S) ==
    IF S = {} THEN 0
    ELSE LET x == CHOOSE y \in S : TRUE IN f[x] + SumOver(f, S \ {x})

-----------------------------------------------------------------------------
(* Program constants of create_invoice *)

\* range(1, 1000): the probe stops before this attempt
ProbeStop == 1000

\* str(attempt).zfill(4)
PadWidth == 4

\* payment_terms = result[0] if result else 30
DefaultPaymentTerms == 30

-----------------------------------------------------------------------------
(* Dates *)

\* invoice_date.year, for the day numbers of 2024 (a leap year) and 2025
Year(d) == IF d < 366 THEN 2024 ELSE 2025

\* invoice_date + timedelta(days=payment_terms)
AddDays(d, n) == d + n

\* DATEADD(day, t.DayOfWeek - 1, t.WeekStartDate)
EntryDate(t) == AddDays(t.WeekStartDate, t.DayOfWeek - 1)

-----------------------------------------------------------------------------
(* Invoice numbers: f"INV-{invoice_date.year}-{str(attempt).zfill(4)}" *)

RECURSIVE Digits(_)
\* str(n) for n >= 0, as the sequence of its decimal digits
Digits(n) ==
    IF n < 10 THEN <<n>> ELSE Append(Digits(n \div 10), n % 10)

RECURSIVE ZFill(_, _)
\* s.zfill(w): pad with zeros on the left up to width w, never truncate
ZFill(s, w) ==
    IF Len(s) >= w THEN s ELSE ZFill(<<0>> \o s, w)

CandidateNumber(year, attempt) ==
    [prefix |-> "INV", year |-> year, seq |-> ZFill(Digits(attempt), PadWidth)]

\* SELECT COUNT(*) FROM Invoices AS i WHERE i.InvoiceNumber = ?
CountNumber(rows, number) ==
    Cardinality({ i \in rows : i.InvoiceNumber = number })

\* mutant: the probe taking its first candidate without the COUNT(*) test
Probe_Unchecked(rows, year, attempt) ==
    Some(CandidateNumber(year, attempt))

RECURSIVE ProbeRange(_, _, _, _)
\* the for-loop over the attempts lo..hi, in order: the first candidate that no
\* header row carries, NULL when the loop ends without one.  The range is
\* halved so that the evaluation does not nest once per attempt; the lower
\* half is always tried first.
ProbeRange(rows, year, lo, hi) ==
    IF lo > hi THEN Null
    ELSE IF lo = hi
         THEN IF CountNumber(rows, CandidateNumber(year, lo)) = 0
              THEN Some(CandidateNumber(year, lo))
              ELSE Null
         ELSE LET mid   == (lo + hi) \div 2
                  first == ProbeRange(rows, year, lo, mid)
              IN  IF first # Null THEN first
                  ELSE ProbeRange(rows, year, mid + 1, hi)

\* mutant: the probe starting over at its first number when none is free
Probe_Wraps(rows, year, attempt) ==
    LET found == ProbeRange(rows, year, attempt, ProbeStop - 1)
    IN  IF found = Null THEN Some(CandidateNumber(year, attempt)) ELSE found

\* for attempt in range(1, 1000): ... break at the first unused candidate
Probe(rows, year, attempt) ==
    ProbeRange(rows, year, attempt, ProbeStop - 1)

-----------------------------------------------------------------------------
(* Transactions of a connection *)

\* rows a statement on connection c reads: committed ones and its own
Visible(c, rows) == { r \in rows : r.tx \in {Committed, c} }

\* rows of another connection's open transaction (locked until it commits)
LockedBy(c, rows) == { r \in rows : r.tx \notin {Committed, c} }

\* conn.commit(): every write pending on connection c becomes durable
CommitRows(c, rows) ==
    { IF r.tx = c THEN [r EXCEPT !.tx = Committed] ELSE r : r \in rows }

CommittedRows(rows) == { r \in rows : r.tx = Committed }

-----------------------------------------------------------------------------
(* Constraints of the relational schema (database/schema.sql) *)

\* mutant: the header table without the constraint
InvoiceNumberFree_Unconstrained(rows, number) == TRUE

\* UNIQUE (InvoiceNumber) on Invoices
InvoiceNumberFree(rows, number) ==
    \A i \in rows : i.InvoiceNumber # number

\* JOIN Clients AS c ON t.ClientID = c.ClientID finds a row
ClientExists(client_id) ==
    \E k \in Clients : k.ClientID = client_id

\* FOREIGN KEY Invoices.ClientID -> Clients
ClientKeyHolds(client_id) ==
    \E k \in Clients : k.ClientID = client_id

\* FOREIGN KEY InvoiceLineItems.InvoiceID -> Invoices
InvoiceExists(rows, invoice_id) ==
    \E i \in rows : i.InvoiceID = invoice_id

\* mutant: the link table without the constraint
TimeEntryUnlinked_Unconstrained(links, entry_id) == TRUE

\* UNIQUE (TimeEntryID) on InvoiceLineItems_TimeEntries
TimeEntryUnlinked(links, entry_id) ==
    \A l \in links : l.TimeEntryID # entry_id

\* ON DELETE CASCADE Invoices -> InvoiceLineItems
CascadeLineItems(items, invoice_id) ==
    { li \in items : li.InvoiceID # invoice_id }

\* ON DELETE CASCADE InvoiceLineItems -> InvoiceLineItems_TimeEntries
CascadeLinks(links, items, invoice_id) ==
    { l \in links :
        \A li \in items : li.LineItemID = l.LineItemID => li.InvoiceID # invoice_id }

-----------------------------------------------------------------------------
(* Inputs of create_invoice *)

Item(dept, hours, rate, ids) ==
    [dept_id |-> dept, total_hours |-> hours, hourly_rate |-> rate, entry_ids |-> ids]

Request(client, date, items) ==
    [client_id |-> client, invoice_date |-> date, items |-> items]

InvoiceRequests ==
    { Request(1, 7,   << Item(Null, 8, 100, <<1>>), Item(Some(1), 4, 75, <<2>>) >>),
      Request(1, 400, << Item(Null, 12, 90, <<3, 2, 1>>) >>),
      Request(2, 7,   << Item(Null, 16, 100, <<1, 1>>) >>) }

\* what the driver reports after the INSERT of a line item (line 665); it
\* depends on the installation (driver and server settings), not on the call:
\*   "raise"  cursor.rowcount > 0 and cursor.fetchone() raises ProgrammingError,
\*            the INSERT having produced no result set
\*   "norows" cursor.rowcount <= 0 (SET NOCOUNT ON): line_item_id is None
\*   "row"    cursor.rowcount > 0 and fetchone() yields a row with a non-zero id
DriverOutcomes == {"raise", "norows", "row"}

-----------------------------------------------------------------------------
(* Call frames *)

NoFrame ==
    [client_id |-> 0, invoice_date |-> 0, items |-> << >>, total_hours |-> 0,
     total_amount |-> 0, invoice_number |-> Null, invoice_id |-> 0, idx |-> 0,
     line_item_id |-> 0, j |-> 0]

\* how the connection's last create_invoice call ended ("ok", or the one
\* exception class it raises, line 688) and the invoice_id it had obtained
NoReturn == [status |-> "none", invoice_id |-> 0]

Returned(status, invoice_id) ==
    [status |-> status, invoice_id |-> invoice_id]

\* History of a connection's last create_invoice call: the client, the date and
\* the items it was given,
\* whether one of its entry ids was already linked when it was called, and
\* whether another connection's call was in progress during it.
NoHistory ==
    [client_id |-> 0, invoice_date |-> 0, items |-> << >>, conflict |-> FALSE,
     raced |-> FALSE]

\* the entry ids of all line-item specs of a call
EntryIdsOf(items) ==
    UNION { { items[i].entry_ids[k] : k \in DOMAIN items[i].entry_ids } : i \in DOMAIN items }

\* except Exception: raise DatabaseError(...); the finally block only closes the
\* cursor, so the connection keeps what the call wrote and did not commit
Raise(c) ==
    /\ pc' = [pc EXCEPT ![c] = "idle"]
    /\ frame' = [frame EXCEPT ![c] = NoFrame]
    /\ ret' = [ret EXCEPT ![c] = Returned("DatabaseError", frame[c].invoice_id)]

\* how the server takes the predicate "t.ClientDepartmentID IS ?" of line 488:
\*   "rejects"  Transact-SQL allows only NULL after IS: the statement raises
\*   "nullsafe" the predicate is evaluated as a NULL-safe equality
Dialects == {"rejects", "nullsafe"}

\* the PaymentTerms column as the Clients rows were stored
StoredTerms == [id \in { k.ClientID : k \in Clients } |->
                  (CHOOSE k \in Clients : k.ClientID = id).PaymentTerms]

\* no timesheet or client call has been made yet
NoCall ==
    [op |-> "none", client_id |-> 0, week |-> 0, day |-> 0, dept_id |-> Null,
     hours |-> 0, rate |-> Null, entries |-> << >>, status |-> "none",
     entry_id |-> Null, invoice_id |-> 0, new_status |-> "none",
     start_date |-> 0, end_date |-> 0, saved_count |-> 0, terms |-> Null,
     result |-> [total_hours |-> 0, total_amount |-> 0, departments |-> {}]]

\* the delete rule of FOREIGN KEY InvoiceLineItems_TimeEntries.TimeEntryID ->
\* TimeEntries (database/schema.sql):
\*   "restrict" a DELETE of a linked TimeEntries row is refused
\*   "cascade"  it removes the row's link rows with it
EntryKeys == {"restrict", "cascade"}

\* the DefaultRate column as the Clients rows were stored
StoredRates == [id \in { k.ClientID : k \in Clients } |->
                  (CHOOSE k \in Clients : k.ClientID = id).DefaultRate]

\* the variables the invoice operations never write; none of them reads
\* identEntry, dialect, entryKey, DefaultRate or last
InitOthers ==
    /\ PaymentTerms = StoredTerms
    /\ DefaultRate = StoredRates
    /\ entryKey = "restrict"
    /\ identEntry = Cardinality(TimeEntries)
    /\ last = NoCall

Init ==
    /\ identLimit = MaxInvoices
    /\ dialect = "rejects"
    /\ Invoices = {}
    /\ InvoiceLineItems = {}
    /\ InvoiceLineItems_TimeEntries = {}
    /\ TimeEntries \in InitialLedgers
    /\ identInvoice = 0
    /\ identLineItem = 0
    /\ pc = [c \in Conns |-> "idle"]
    /\ frame = [c \in Conns |-> NoFrame]
    /\ ret = [c \in Conns |-> NoReturn]
    /\ hist = [c \in Conns |-> NoHistory]
    /\ driver \in DriverOutcomes
    /\ InitOthers

-----------------------------------------------------------------------------
(* create_invoice(client_id, invoice_date, items), statement by statement *)

\* lines 611-628: totals, then the probe for a free invoice number
CI_Begin(c, req) ==
    /\ pc[c] = "idle"
    /\ identInvoice + Cardinality({ d \in Conns : pc[d] = "header" }) < identLimit
    /\ LET items  == req.items
           hours  == SumSeq([i \in DOMAIN items |-> items[i].total_hours])
           amount == SumSeq([i \in DOMAIN items |->
                               items[i].hourly_rate * items[i].total_hours])
           number == Probe(Invoices, Year(req.invoice_date), 1)
       IN  IF number = Null
           THEN Raise(c)
           ELSE /\ pc' = [pc EXCEPT ![c] = "header"]
                /\ frame' = [frame EXCEPT ![c] =
                                [NoFrame EXCEPT !.client_id = req.client_id,
                                                !.invoice_date = req.invoice_date,
                                                !.items = items,
                                                !.total_hours = hours,
                                                !.total_amount = amount,
                                                !.invoice_number = number]]
                /\ ret' = [ret EXCEPT ![c] = NoReturn]
    /\ hist' = [d \in Conns |->
                 IF d = c
                 THEN [client_id |-> req.client_id,
                       invoice_date |-> req.invoice_date,
                       items |-> req.items,
                       conflict |-> \E e \in EntryIdsOf(req.items) :
                                       \E l \in Visible(c, InvoiceLineItems_TimeEntries) :
                                           l.TimeEntryID = e,
                       raced |-> \E o \in Conns \ {c} : pc[o] # "idle"]
                 ELSE IF pc[d] # "idle" THEN [hist[d] EXCEPT !.raced = TRUE]
                 ELSE hist[d]]
    /\ UNCHANGED <<Invoices, InvoiceLineItems, InvoiceLineItems_TimeEntries,
                   TimeEntries, identInvoice, identLineItem, driver, others>>

\* mutant: the header row with the default payment terms for every client
HeaderRow_DefaultTerms(f, id) ==
    [InvoiceID |-> id, ClientID |-> f.client_id,
     InvoiceNumber |-> f.invoice_number[1],
     InvoiceDate |-> f.invoice_date,
     DueDate |-> AddDays(f.invoice_date, DefaultPaymentTerms),
     TotalHours |-> f.total_hours, TotalAmount |-> f.total_amount,
     Status |-> "Draft"]

\* the header row of lines 638-642
HeaderRow(f, id) ==
    LET found == { k \in Clients : k.ClientID = f.client_id }
        terms == IF found # {} THEN PaymentTerms[f.client_id]
                 ELSE DefaultPaymentTerms
    IN  [InvoiceID |-> id, ClientID |-> f.client_id,
         InvoiceNumber |-> f.invoice_number[1],
         InvoiceDate |-> f.invoice_date,
         DueDate |-> AddDays(f.invoice_date, terms),
         TotalHours |-> f.total_hours, TotalAmount |-> f.total_amount,
         Status |-> "Draft"]

\* lines 630-647: payment terms, INSERT of the header, conn.commit(), @@IDENTITY
CI_Header(c) ==
    /\ pc[c] = "header"
    /\ identInvoice' = identInvoice + 1
    /\ IF ClientKeyHolds(frame[c].client_id)
          /\ InvoiceNumberFree(Invoices, frame[c].invoice_number[1])
       THEN /\ Invoices' = Invoices \cup {HeaderRow(frame[c], identInvoice + 1)}
            /\ InvoiceLineItems' = CommitRows(c, InvoiceLineItems)
            /\ InvoiceLineItems_TimeEntries' = CommitRows(c, InvoiceLineItems_TimeEntries)
            /\ pc' = [pc EXCEPT ![c] = "items"]
            /\ frame' = [frame EXCEPT ![c].invoice_id = identInvoice + 1, ![c].idx = 1]
            /\ UNCHANGED ret
       ELSE /\ Raise(c)
            /\ UNCHANGED <<Invoices, InvoiceLineItems, InvoiceLineItems_TimeEntries>>
    /\ UNCHANGED <<TimeEntries, identLineItem, hist, driver, others>>

\* the line-item row of lines 651-663
LineItemRow(c, invoice_id, item, id) ==
    [LineItemID |-> id, InvoiceID |-> invoice_id,
     ClientDepartmentID |-> item.dept_id,
     TotalHours |-> item.total_hours, HourlyRate |-> item.hourly_rate,
     Amount |-> item.total_hours * item.hourly_rate, tx |-> c]

\* lines 650-670: INSERT of one line item, then the read of its id
CI_LineItem(c) ==
    /\ pc[c] = "items"
    /\ frame[c].idx <= Len(frame[c].items)
    /\ identLineItem' = identLineItem + 1
    /\ LET f    == frame[c]
           item == f.items[f.idx]
           id   == identLineItem + 1
       IN  IF ~InvoiceExists(Invoices, f.invoice_id)
           THEN /\ Raise(c)
                /\ UNCHANGED InvoiceLineItems
           ELSE /\ InvoiceLineItems' =
                       InvoiceLineItems \cup {LineItemRow(c, f.invoice_id, item, id)}
                /\ IF driver = "raise"
                   THEN Raise(c)
                   ELSE /\ UNCHANGED ret
                        /\ IF driver = "row" /\ item.entry_ids # << >>
                           THEN /\ pc' = [pc EXCEPT ![c] = "links"]
                                /\ frame' = [frame EXCEPT ![c].line_item_id = id,
                                                          ![c].j = 1]
                           ELSE /\ UNCHANGED pc
                                /\ frame' = [frame EXCEPT ![c].idx = f.idx + 1]
    /\ UNCHANGED <<Invoices, InvoiceLineItems_TimeEntries, TimeEntries, identInvoice,
                   hist, driver, others>>

\* INSERT INTO InvoiceLineItems_TimeEntries SELECT ?, ?, t.HoursWorked
\* FROM TimeEntries AS t WHERE t.EntryID = ?   (lines 673-679)
LinkRows(c, line_item_id, entry_id) ==
    { [LineItemID |-> line_item_id, TimeEntryID |-> entry_id,
       HoursIncluded |-> t.HoursWorked, tx |-> c] :
        t \in { u \in TimeEntries : u.EntryID = entry_id } }

\* lines 672-679: one pass of the loop over entry_ids
CI_Link(c) ==
    /\ pc[c] = "links"
    /\ LET f     == frame[c]
           ids   == f.items[f.idx].entry_ids
           rows  == LinkRows(c, f.line_item_id, ids[f.j])
           links == InvoiceLineItems_TimeEntries
       IN  \* the INSERT waits for a lock while another open transaction holds a
           \* row with the same key
           /\ rows # {} => TimeEntryUnlinked(LockedBy(c, links), ids[f.j])
           /\ IF rows # {} /\ ~TimeEntryUnlinked(Visible(c, links), ids[f.j])
              THEN /\ Raise(c)
                   /\ UNCHANGED InvoiceLineItems_TimeEntries
              ELSE /\ InvoiceLineItems_TimeEntries' = links \cup rows
                   /\ UNCHANGED ret
                   /\ IF f.j < Len(ids)
                      THEN /\ frame' = [frame EXCEPT ![c].j = f.j + 1]
                           /\ UNCHANGED pc
                      ELSE /\ frame' = [frame EXCEPT ![c].idx = f.idx + 1]
                           /\ pc' = [pc EXCEPT ![c] = "items"]
    /\ UNCHANGED <<Invoices, InvoiceLineItems, TimeEntries, identInvoice, identLineItem,
                   hist, driver, others>>

\* lines 681-684: conn.commit() and return int(invoice_id)
CI_Commit(c) ==
    /\ pc[c] = "items"
    /\ frame[c].idx > Len(frame[c].items)
    /\ InvoiceLineItems' = CommitRows(c, InvoiceLineItems)
    /\ InvoiceLineItems_TimeEntries' = CommitRows(c, InvoiceLineItems_TimeEntries)
    /\ pc' = [pc EXCEPT ![c] = "idle"]
    /\ frame' = [frame EXCEPT ![c] = NoFrame]
    /\ ret' = [ret EXCEPT ![c] = Returned("ok", frame[c].invoice_id)]
    /\ UNCHANGED <<Invoices, TimeEntries, identInvoice, identLineItem, hist, driver, others>>

-----------------------------------------------------------------------------
(* delete_invoice(invoice_id) *)

\* mutant: the DELETE without its WHERE clause
DeleteHeader_AllRows(rows, invoice_id) == {}

\* DELETE FROM Invoices WHERE InvoiceID = ?   (line 871)
DeleteHeader(rows, invoice_id) ==
    { i \in rows : i.InvoiceID # invoice_id }

\* lines 864-882; failed: the DELETE raises a storage error and removes nothing
delete_invoice(c, invoice_id, failed) ==
    /\ pc[c] = "idle"
    /\ LET mine == { li \in InvoiceLineItems : li.InvoiceID = invoice_id }
       IN  \* the cascade waits for rows locked by another open transaction
           /\ LockedBy(c, mine) = {}
           /\ \A l \in LockedBy(c, InvoiceLineItems_TimeEntries) :
                  \A li \in mine : li.LineItemID # l.LineItemID
    /\ IF failed
       THEN UNCHANGED <<Invoices, InvoiceLineItems, InvoiceLineItems_TimeEntries>>
       ELSE /\ Invoices' = DeleteHeader(Invoices, invoice_id)
            /\ InvoiceLineItems' =
                   CommitRows(c, CascadeLineItems(InvoiceLineItems, invoice_id))
            /\ InvoiceLineItems_TimeEntries' =
                   CommitRows(c, CascadeLinks(InvoiceLineItems_TimeEntries,
                                              InvoiceLineItems, invoice_id))
    /\ UNCHANGED <<TimeEntries, identInvoice, identLineItem, pc, frame, ret, hist, driver, others>>

-----------------------------------------------------------------------------
(* get_hours_grouped_by_department(client_id, start_date, end_date) *)

\* ISNULL(x, y)
IsNull(x, y) == IF x = Null THEN y ELSE x[1]

\* LEFT JOIN ClientDepartments AS cd: cd.BillingRate, NULL without a match
DeptBillingRate(t) ==
    LET cd == { d \in ClientDepartments :
                  t.ClientDepartmentID = Some(d.ClientDepartmentID) }
    IN  IF cd = {} THEN Null ELSE (CHOOSE d \in cd : TRUE).BillingRate

\* JOIN Clients AS c: c.DefaultRate
ClientDefaultRate(t) ==
    (CHOOSE k \in Clients : k.ClientID = t.ClientID).DefaultRate

\* ISNULL(cd.BillingRate, c.DefaultRate) AS BillingRate
GroupBillingRate(t) == IsNull(DeptBillingRate(t), ClientDefaultRate(t))

\* ISNULL(t.RateUsed, ISNULL(cd.BillingRate, c.DefaultRate))
ResolvedRate(t) == IsNull(t.RateUsed, GroupBillingRate(t))

\* mutant: the WHERE clause without the NOT IN subquery
UnbilledRows_IgnoringLinks(entries, links, client_id, start_date, end_date) ==
    { t \in entries :
        /\ ClientExists(t.ClientID)
        /\ t.ClientID = client_id
        /\ EntryDate(t) >= start_date
        /\ EntryDate(t) <= end_date }

\* mutant: the WHERE clause with the end date excluded
UnbilledRows_EndExcluded(entries, links, client_id, start_date, end_date) ==
    { t \in entries :
        /\ ClientExists(t.ClientID)
        /\ t.ClientID = client_id
        /\ EntryDate(t) >= start_date
        /\ EntryDate(t) < end_date
        /\ t.EntryID \notin { l.TimeEntryID : l \in links } }

\* mutant: the WHERE clause without the client
UnbilledRows_AnyClient(entries, links, client_id, start_date, end_date) ==
    { t \in entries :
        /\ ClientExists(t.ClientID)
        /\ EntryDate(t) >= start_date
        /\ EntryDate(t) <= end_date
        /\ t.EntryID \notin { l.TimeEntryID : l \in links } }

\* the WHERE clause of lines 555-561 over the joined rows
UnbilledRows(entries, links, client_id, start_date, end_date) ==
    { t \in entries :
        /\ ClientExists(t.ClientID)
        /\ t.ClientID = client_id
        /\ EntryDate(t) >= start_date
        /\ EntryDate(t) <= end_date
        /\ t.EntryID \notin { l.TimeEntryID : l \in links } }

\* one row of the GROUP BY (lines 545-551, 575-582); EntryIDs is the id list
\* that STRING_AGG builds and the code splits again, kept as a set
DepartmentGroup(rows, dept) ==
    LET G == { t \in rows : t.ClientDepartmentID = dept }
        t0 == CHOOSE t \in G : TRUE
    IN  [ClientDepartmentID |-> dept,
         BillingRate |-> GroupBillingRate(t0),
         TotalHours |-> SumOver([t \in G |-> t.HoursWorked], G),
         TotalAmount |-> SumOver([t \in G |-> t.HoursWorked * ResolvedRate(t)], G),
         EntryIDs |-> { t.EntryID : t \in G }]

\* lines 537-592, over the TimeEntries and link rows the caller's connection reads
get_hours_grouped_by_department(entries, links, client_id, start_date, end_date) ==
    LET rows == UnbilledRows(entries, links, client_id, start_date, end_date)
        departments == { DepartmentGroup(rows, dept) :
                           dept \in { t.ClientDepartmentID : t \in rows } }
    IN  [total_hours |-> SumOver([g \in departments |-> g.TotalHours], departments),
         total_amount |-> SumOver([g \in departments |-> g.TotalAmount], departments),
         departments |-> departments]

-----------------------------------------------------------------------------
(* update_client(client_id, default_rate=..., payment_terms=...),         *)
(* lines 165-218                                                           *)

\* the call of a client operation, in the shape of last
ClientCall(op, client_id) ==
    [NoCall EXCEPT !.op = op, !.client_id = client_id, !.status = "ok"]

\* "DefaultRate = ?" / "PaymentTerms = ?" joins the SET list only for an
\* argument that is not None (lines 179-185)
SetColumn(column, client_id, value) ==
    IF value # Null /\ client_id \in DOMAIN column
    THEN [column EXCEPT ![client_id] = value[1]]
    ELSE column

\* UPDATE Clients SET ... WHERE ClientID = ?, then conn.commit(), which also
\* makes durable what an earlier failed call left pending on the connection;
\* no argument is compared with a bound, and the call returns True whether
\* or not a row matched
update_client(c, client_id, default_rate, payment_terms) ==
    /\ pc[c] = "idle"
    /\ default_rate # Null \/ payment_terms # Null
    /\ DefaultRate' = SetColumn(DefaultRate, client_id, default_rate)
    /\ PaymentTerms' = SetColumn(PaymentTerms, client_id, payment_terms)
    /\ InvoiceLineItems' = CommitRows(c, InvoiceLineItems)
    /\ InvoiceLineItems_TimeEntries' = CommitRows(c, InvoiceLineItems_TimeEntries)
    /\ last' = [ClientCall("update_client", client_id) EXCEPT
                    !.rate = default_rate, !.terms = payment_terms]
    /\ UNCHANGED <<Invoices, TimeEntries, identInvoice, identLineItem, pc, frame, ret,
                   hist, driver, identLimit, identEntry, dialect, entryKey>>

-----------------------------------------------------------------------------
(* A call of get_hours_grouped_by_department on a store that holds one     *)
(* invoice with one line item                                              *)

\* the call and what it returns, in the shape of last
QueryCall(client_id, start_date, end_date, result) ==
    [NoCall EXCEPT !.op = "get_hours_grouped_by_department", !.client_id = client_id,
                   !.start_date = start_date, !.end_date = end_date,
                   !.status = "ok", !.result = result]

\* the read of lines 537-592 on connection c; it writes nothing
get_hours_grouped(c, client_id, start_date, end_date) ==
    /\ pc[c] = "idle"
    /\ last' = QueryCall(client_id, start_date, end_date,
                         get_hours_grouped_by_department(
                             TimeEntries, Visible(c, InvoiceLineItems_TimeEntries),
                             client_id, start_date, end_date))
    /\ UNCHANGED <<Invoices, InvoiceLineItems, InvoiceLineItems_TimeEntries,
                   TimeEntries, identInvoice, identLineItem, pc, frame, ret, hist,
                   driver, PaymentTerms, identLimit, identEntry, dialect, entryKey, DefaultRate>>

\* ledgers left by timesheet saves: rows with and without a department, with
\* their own rate, without one (NULL) and with rate 0 (save_day_entries
\* without 'rate', line 465; the desktop helper's validate_rate lets 0 pass),
\* of two clients
QueryLedgers ==
    { { Entry(1, 1, Null, 0, 1, 8, Some(100)),
        Entry(2, 1, Some(1), 0, 3, 4, Null),
        Entry(3, 2, Null, 7, 7, 4, Some(90)) },
      { Entry(1, 1, Null, 0, 1, 6, Null),
        Entry(2, 1, Some(1), 7, 7, 2, Some(0)),
        Entry(3, 1, Null, 7, 1, 5, Some(90)) } }

\* clients and dates the aggregation is asked for
QueryClients == {1, 2}

QueryDates == {0, 2, 13, 14}

\* the store after one create_invoice call for client 1 that claimed the
\* entries billed, with one line item
QueryInitOver(ledger, billed) ==
    /\ TimeEntries = ledger
    /\ Invoices = { [InvoiceID |-> 1, ClientID |-> 1,
                     InvoiceNumber |-> CandidateNumber(2024, 1),
                     InvoiceDate |-> 14, DueDate |-> AddDays(14, StoredTerms[1]),
                     TotalHours |-> 8, TotalAmount |-> 800, Status |-> "Draft"] }
    /\ InvoiceLineItems = { [LineItemID |-> 1, InvoiceID |-> 1,
                             ClientDepartmentID |-> Null, TotalHours |-> 8,
                             HourlyRate |-> 100, Amount |-> 800, tx |-> Committed] }
    /\ InvoiceLineItems_TimeEntries =
           { [LineItemID |-> 1, TimeEntryID |-> t.EntryID,
              HoursIncluded |-> t.HoursWorked, tx |-> Committed] :
               t \in { u \in ledger : u.EntryID \in billed } }
    /\ identInvoice = 1
    /\ identLineItem = 1
    /\ identLimit = 1 + MaxInvoices
    /\ dialect = "rejects"
    /\ pc = [c \in Conns |-> "idle"]
    /\ frame = [c \in Conns |-> NoFrame]
    /\ ret = [c \in Conns |-> NoReturn]
    /\ hist = [c \in Conns |-> NoHistory]
    /\ driver = "row"
    /\ InitOthers

QueryInit ==
    \E ledger \in QueryLedgers :
        \E billed \in SUBSET { t.EntryID : t \in ledger } :
            QueryInitOver(ledger, billed)

QueryNext ==
    \E k \in QueryClients, s \in QueryDates, e \in QueryDates :
        s <= e /\ get_hours_grouped(1, k, s, e)

QuerySpec == QueryInit /\ [][QueryNext]_vars

-----------------------------------------------------------------------------
(* update_invoice_status(invoice_id, status), lines 812-838 *)

\* valid_statuses (line 816)
valid_statuses == {"Draft", "Sent", "Paid", "Overdue", "Cancelled"}

\* the call of an invoice operation and its outcome, in the shape of last
InvoiceCall(op, invoice_id, new_status, status) ==
    [NoCall EXCEPT !.op = op, !.invoice_id = invoice_id, !.new_status = new_status,
                   !.status = status]

\* mutant: the UPDATE without its WHERE clause
SetStatus_AllRows(rows, invoice_id, status) ==
    { [i EXCEPT !.Status = status] : i \in rows }

\* UPDATE Invoices SET Status = ? WHERE InvoiceID = ?   (lines 823-827)
SetStatus(rows, invoice_id, status) ==
    { IF i.InvoiceID = invoice_id THEN [i EXCEPT !.Status = status] ELSE i :
        i \in rows }

\* lines 812-838.  The ValidationError of line 818 is raised inside the try
\* block, so "except Exception" (833-835) catches it and the caller gets a
\* DatabaseError.  With a valid status the UPDATE runs, for a missing invoice
\* over no row, and conn.commit() also makes durable what an earlier failed
\* call left pending on the connection.
update_invoice_status(c, invoice_id, status) ==
    /\ pc[c] = "idle"
    /\ IF status \notin valid_statuses
       THEN /\ last' = InvoiceCall("update_invoice_status", invoice_id, status,
                                   "DatabaseError")
            /\ UNCHANGED <<Invoices, InvoiceLineItems, InvoiceLineItems_TimeEntries>>
       ELSE /\ Invoices' = SetStatus(Invoices, invoice_id, status)
            /\ InvoiceLineItems' = CommitRows(c, InvoiceLineItems)
            /\ InvoiceLineItems_TimeEntries' = CommitRows(c, InvoiceLineItems_TimeEntries)
            /\ last' = InvoiceCall("update_invoice_status", invoice_id, status, "ok")
    /\ UNCHANGED <<TimeEntries, identInvoice, identLineItem, pc, frame, ret,
                   hist, driver, PaymentTerms, identLimit, identEntry, dialect, entryKey, DefaultRate>>

-----------------------------------------------------------------------------
(* One application instance, with requests for a missing client and       *)
(* without line items, and with changes of a client's payment terms; and   *)
(* one application instance on a store that already holds a full year of   *)
(* invoice numbers                                                         *)

\* the headers of a year in which every number the probe tries is taken
FullYear(year) ==
    { [InvoiceID |-> n, ClientID |-> 1,
       InvoiceNumber |-> CandidateNumber(year, n),
       InvoiceDate |-> 7, DueDate |-> AddDays(7, StoredTerms[1]),
       TotalHours |-> 8, TotalAmount |-> 800, Status |-> "Draft"] :
        n \in 1..(ProbeStop - 1) }

SerialRequests ==
    { Request(1, 7,   << Item(Null, 8, 100, <<1>>) >>),
      Request(1, 400, << Item(Some(1), 4, 75, <<2>>) >>),
      Request(9, 7,   << Item(Null, 8, 100, << >>) >>),
      Request(2, 400, << >>) }

\* the invoice ids delete_invoice is asked for: the first header of the store
\* and the first one inserted after a full year
SerialDeleteIds == {1, Cardinality(FullYear(2024)) + 1}

\* the payment terms update_client is given, and the clients it is asked for
SerialTerms == {30, 45}

SerialClients == {1, 9}

\* the state after construction over a store that holds the headers stored
SerialInitOver(stored) ==
    /\ Invoices = stored
    /\ identInvoice = Cardinality(stored)
    /\ identLimit = Cardinality(stored) + MaxInvoices
    /\ dialect = "rejects"
    /\ InvoiceLineItems = {}
    /\ InvoiceLineItems_TimeEntries = {}
    /\ TimeEntries = { Entry(1, 1, Null, 0, 1, 8, Some(100)),
                       Entry(2, 1, Some(1), 0, 3, 4, Null) }
    /\ identLineItem = 0
    /\ pc = [c \in Conns |-> "idle"]
    /\ frame = [c \in Conns |-> NoFrame]
    /\ ret = [c \in Conns |-> NoReturn]
    /\ hist = [c \in Conns |-> NoHistory]
    /\ driver \in DriverOutcomes
    /\ InitOthers

SerialInit == SerialInitOver({})

SerialNext ==
    \/ \E req \in SerialRequests : CI_Begin(1, req)
    \/ CI_Header(1)
    \/ CI_LineItem(1)
    \/ CI_Link(1)
    \/ CI_Commit(1)
    \/ \E id \in SerialDeleteIds, failed \in BOOLEAN : delete_invoice(1, id, failed)
    \/ \E k \in SerialClients, t \in SerialTerms : update_client(1, k, Null, Some(t))

SerialSpec == SerialInit /\ [][SerialNext]_vars

FullYearRequests ==
    { Request(1, 7,   << Item(Null, 8, 100, <<1>>) >>),
      Request(1, 400, << Item(Some(1), 4, 75, <<2>>) >>) }

FullYearInit == SerialInitOver(FullYear(2024))

FullYearNext ==
    \/ \E req \in FullYearRequests : CI_Begin(1, req)
    \/ CI_Header(1)
    \/ CI_LineItem(1)
    \/ CI_Link(1)
    \/ CI_Commit(1)
    \/ \E id \in SerialDeleteIds, failed \in BOOLEAN : delete_invoice(1, id, failed)

FullYearSpec == FullYearInit /\ [][FullYearNext]_vars

-----------------------------------------------------------------------------
(* One application instance that creates invoices, deletes them and sets   *)
(* their status                                                            *)

\* the status values update_invoice_status is given: the five of the list,
\* one in another case and one unknown
StatusValues == valid_statuses \cup {"paid", "Void"}

\* the invoice ids it is asked for; the last one is never stored
StatusInvoiceIds == 1..(MaxInvoices + 1)

StatusRequests ==
    { Request(1, 7,   << Item(Null, 8, 100, <<1>>) >>),
      Request(1, 400, << Item(Some(1), 4, 75, <<2>>) >>) }

StatusInit ==
    /\ SerialInitOver({})
    /\ driver = "row"

StatusNext ==
    \/ \E req \in StatusRequests : CI_Begin(1, req)
    \/ CI_Header(1)
    \/ CI_LineItem(1)
    \/ CI_Link(1)
    \/ CI_Commit(1)
    \/ \E id \in StatusInvoiceIds : delete_invoice(1, id, FALSE)
    \/ \E id \in StatusInvoiceIds, st \in StatusValues :
           update_invoice_status(1, id, st)

StatusSpec == StatusInit /\ [][StatusNext]_vars

-----------------------------------------------------------------------------
(* Timesheet operations: save_time_entry, save_day_entries,                *)
(* delete_time_entry.  A call runs to completion on the one connection of  *)
(* its application instance and commits at its end.  The specifications    *)
(* that use them run one backend instance, so no statement of theirs waits *)
(* for a row locked by another connection.                                 *)

\* how many TimeEntries rows are ever inserted (IDENTITY values are not reused)
MaxEntries == 2

\* the call of a timesheet operation and its outcome, in the shape of last
EntryCall(op, client_id, week, day, dept_id, hours, rate, status, entry_id) ==
    [NoCall EXCEPT !.op = op, !.client_id = client_id, !.week = week, !.day = day,
                   !.dept_id = dept_id, !.hours = hours, !.rate = rate,
                   !.status = status, !.entry_id = entry_id]

\* WHERE t.ClientID = ? AND t.WeekStartDate = ? AND t.DayOfWeek = ?
\*   AND t.ClientDepartmentID IS ?      (lines 486-489, where the server
\* evaluates the last predicate as a NULL-safe equality)
MatchingEntries(entries, client_id, week, day, dept_id) ==
    { t \in entries : /\ t.ClientID = client_id
                      /\ t.WeekStartDate = week
                      /\ t.DayOfWeek = day
                      /\ t.ClientDepartmentID = dept_id }

\* WHERE ClientID = ? AND WeekStartDate = ? AND DayOfWeek = ?
\* (save_day_entries line 448, and the desktop helper's save_time_entry)
DayEntries(entries, client_id, week, day) ==
    { t \in entries : /\ t.ClientID = client_id
                      /\ t.WeekStartDate = week
                      /\ t.DayOfWeek = day }

\* lines 493-517, for the row that fetchone() returned (existing, a set of at
\* most one row): the ledger the call leaves, and the entry_id it returns
Upsert(entries, existing, client_id, week, day, dept_id, hours, rate, new_id) ==
    IF existing # {}
    THEN LET e == CHOOSE t \in existing : TRUE
         IN  IF hours > 0
             THEN [entries |-> (entries \ {e}) \cup
                                 {[e EXCEPT !.HoursWorked = hours, !.RateUsed = rate]},
                   entry_id |-> Some(e.EntryID), inserted |-> 0]
             ELSE [entries |-> entries \ {e}, entry_id |-> Null, inserted |-> 0]
    ELSE IF hours > 0
         THEN [entries |-> entries \cup
                             {Entry(new_id, client_id, dept_id, week, day, hours, rate)},
               entry_id |-> Some(new_id), inserted |-> 1]
         ELSE [entries |-> entries, entry_id |-> Null, inserted |-> 0]

\* the rows fetchone() may return: one of the matching rows, or none
Fetched(rows) == IF rows = {} THEN {{}} ELSE { {t} : t \in rows }

\* the ids of the rows a statement removes from TimeEntries
DeletedIds(before, after) ==
    { t.EntryID : t \in before } \ { t.EntryID : t \in after }

\* the DELETE is refused: one of its rows is referenced by a link row
DeleteRefused(links, ids) ==
    entryKey = "restrict" /\ \E l \in links : l.TimeEntryID \in ids

\* mutant: the link table without the key
LinksAfterDelete_Kept(links, ids) == links

\* the link rows left by a DELETE of TimeEntries rows that is not refused
LinksAfterDelete(links, ids) ==
    { l \in links : l.TimeEntryID \notin ids }

\* conn.commit() at the end of a timesheet call on connection c that removed
\* the TimeEntries rows ids: also what an earlier failed call left pending on
\* the connection becomes durable
CommitAfterDelete(c, ids) ==
    /\ InvoiceLineItems' = CommitRows(c, InvoiceLineItems)
    /\ InvoiceLineItems_TimeEntries' =
           CommitRows(c, LinksAfterDelete(InvoiceLineItems_TimeEntries, ids))

\* backend save_time_entry(client_id, week_start_date, day_of_week, hours_worked,
\* rate_used, notes, dept_id), lines 480-522, on connection c.  No statement
\* is inside a try block: where the server rejects "IS ?" the call ends with
\* the driver's ProgrammingError before any write, and a refused DELETE ends
\* it with the driver's IntegrityError before the commit.
save_time_entry(c, client_id, week, day, hours, rate, dept_id) ==
    /\ pc[c] = "idle"
    /\ identEntry < MaxEntries \/ hours = 0
    /\ IF dialect = "rejects"
       THEN /\ last' = EntryCall("save_time_entry", client_id, week, day, dept_id,
                                 hours, rate, "ProgrammingError", Null)
            /\ UNCHANGED <<TimeEntries, identEntry, InvoiceLineItems,
                           InvoiceLineItems_TimeEntries>>
       ELSE \E existing \in Fetched(MatchingEntries(TimeEntries, client_id, week, day,
                                                     dept_id)) :
              LET r == Upsert(TimeEntries, existing, client_id, week, day, dept_id,
                              hours, rate, identEntry + 1)
                  ids == DeletedIds(TimeEntries, r.entries)
              IN  IF DeleteRefused(InvoiceLineItems_TimeEntries, ids)
                  THEN /\ last' = EntryCall("save_time_entry", client_id, week, day,
                                            dept_id, hours, rate, "IntegrityError", Null)
                       /\ UNCHANGED <<TimeEntries, identEntry, InvoiceLineItems,
                                      InvoiceLineItems_TimeEntries>>
                  ELSE /\ TimeEntries' = r.entries
                       /\ identEntry' = identEntry + r.inserted
                       /\ CommitAfterDelete(c, ids)
                       /\ last' = EntryCall("save_time_entry", client_id, week, day,
                                            dept_id, hours, rate, "ok", r.entry_id)
    /\ UNCHANGED <<Invoices, identInvoice, identLineItem, pc, frame, ret, hist, driver,
                   PaymentTerms, identLimit, dialect, entryKey, DefaultRate>>

\* validate_hours, validate_rate and the day test of the desktop helper
\* (projects/dts/.../db_helper.py, 95-117 and 492-496)
DesktopValid(day, hours, rate) ==
    /\ hours >= 0 /\ hours <= 24
    /\ rate # Null /\ rate[1] >= 0 /\ rate[1] <= 999999
    /\ day >= 1 /\ day <= 7

\* the desktop helper's save_time_entry(client_id, week_start_date, day_of_week,
\* hours_worked, rate_used, notes) (projects/dts/.../db_helper.py, 471-556), on
\* the desktop application's own connection: validation first, no department
\* in the key, none in the row it inserts; a statement that fails is rolled
\* back and reported as DatabaseError
save_time_entry_desktop(client_id, week, day, hours, rate) ==
    /\ identEntry < MaxEntries \/ hours = 0
    /\ IF ~DesktopValid(day, hours, rate)
       THEN /\ last' = EntryCall("save_time_entry_desktop", client_id, week, day,
                                 Null, hours, rate, "ValidationError", Null)
            /\ UNCHANGED <<TimeEntries, identEntry, InvoiceLineItems_TimeEntries>>
       ELSE \E existing \in Fetched(DayEntries(TimeEntries, client_id, week, day)) :
              LET r == Upsert(TimeEntries, existing, client_id, week, day, Null,
                              hours, rate, identEntry + 1)
                  ids == DeletedIds(TimeEntries, r.entries)
              IN  IF DeleteRefused(InvoiceLineItems_TimeEntries, ids)
                  THEN /\ last' = EntryCall("save_time_entry_desktop", client_id, week,
                                            day, Null, hours, rate, "DatabaseError", Null)
                       /\ UNCHANGED <<TimeEntries, identEntry,
                                      InvoiceLineItems_TimeEntries>>
                  ELSE /\ TimeEntries' = r.entries
                       /\ identEntry' = identEntry + r.inserted
                       /\ InvoiceLineItems_TimeEntries' =
                              LinksAfterDelete(InvoiceLineItems_TimeEntries, ids)
                       /\ last' = EntryCall("save_time_entry_desktop", client_id, week,
                                            day, Null, hours, rate, "ok", r.entry_id)
    /\ UNCHANGED <<Invoices, InvoiceLineItems, identInvoice, identLineItem, pc, frame,
                   ret, hist, driver, PaymentTerms, identLimit, dialect, entryKey, DefaultRate>>

\* one element of the entries argument of save_day_entries; rate NULL stands
\* for a dict without the key 'rate'
DayEntry(dept_id, hours, rate) == [dept_id |-> dept_id, hours |-> hours, rate |-> rate]

\* entry.get('dept_id') or None: 0 is stored as NULL
DeptOrNone(dept_id) == IF dept_id = Some(0) THEN Null ELSE dept_id

\* float(entry.get('rate', 0))
RateOrZero(rate) == Some(IsNull(rate, 0))

RECURSIVE InsertDayEntries(_, _, _, _, _)
\* the loop of lines 452-467: one INSERT per element with hours > 0, each
\* taking the next IDENTITY value; yields the rows inserted
InsertDayEntries(given, client_id, week, day, ident) ==
    IF given = << >> THEN {}
    ELSE LET e == Head(given)
         IN  IF e.hours > 0
             THEN {Entry(ident + 1, client_id, DeptOrNone(e.dept_id), week, day,
                         e.hours, RateOrZero(e.rate))}
                  \cup InsertDayEntries(Tail(given), client_id, week, day, ident + 1)
             ELSE InsertDayEntries(Tail(given), client_id, week, day, ident)

\* save_day_entries(client_id, week_start_date, day_of_week, entries), lines
\* 435-478, on connection c: DELETE of the day's rows of the client, then the
\* INSERTs, commit; a refused DELETE is reported as DatabaseError
save_day_entries(c, client_id, week, day, given) ==
    LET rows == InsertDayEntries(given, client_id, week, day, identEntry)
        gone == DayEntries(TimeEntries, client_id, week, day)
        ids  == { t.EntryID : t \in gone }
        call == [EntryCall("save_day_entries", client_id, week, day, Null, 0, Null,
                           "ok", Null) EXCEPT !.entries = given]
    IN  /\ pc[c] = "idle"
        /\ identEntry + Cardinality(rows) <= MaxEntries
        /\ IF DeleteRefused(InvoiceLineItems_TimeEntries, ids)
           THEN /\ last' = [call EXCEPT !.status = "DatabaseError"]
                /\ UNCHANGED <<TimeEntries, identEntry, InvoiceLineItems,
                               InvoiceLineItems_TimeEntries>>
           ELSE /\ TimeEntries' = (TimeEntries \ gone) \cup rows
                /\ identEntry' = identEntry + Cardinality(rows)
                /\ CommitAfterDelete(c, ids)
                /\ last' = call
        /\ UNCHANGED <<Invoices, identInvoice, identLineItem, pc, frame, ret, hist,
                       driver, PaymentTerms, identLimit, dialect, entryKey, DefaultRate>>

\* delete_time_entry(entry_id), lines 524-533, on connection c; a refused
\* DELETE ends the call with the driver's IntegrityError before the commit
delete_time_entry(c, entry_id) ==
    LET call == [EntryCall("delete_time_entry", 0, 0, 0, Null, 0, Null, "ok", Null)
                   EXCEPT !.entry_id = Some(entry_id)]
    IN  /\ pc[c] = "idle"
        /\ IF DeleteRefused(InvoiceLineItems_TimeEntries, {entry_id})
           THEN /\ last' = [call EXCEPT !.status = "IntegrityError"]
                /\ UNCHANGED <<TimeEntries, InvoiceLineItems,
                               InvoiceLineItems_TimeEntries>>
           ELSE /\ TimeEntries' = { t \in TimeEntries : t.EntryID # entry_id }
                /\ CommitAfterDelete(c, {entry_id})
                /\ last' = call
        /\ UNCHANGED <<Invoices, identInvoice, identLineItem, pc, frame, ret, hist,
                       driver, PaymentTerms, identLimit, identEntry, dialect, entryKey, DefaultRate>>

-----------------------------------------------------------------------------
(* Timesheet reads: get_weekly_timesheet, get_day_entries *)

\* Python's "x if x else y" on a number: 0 counts as absent
OrElse(x, y) == IF x = 0 THEN y ELSE x

\* "if row.BillingRate" (line 411): NULL and 0 both count as absent
Truthy(x) == x # Null /\ x # Some(0)

WeekDays == 1..7

\* WHERE c.Active = 1
ActiveClients == { k \in Clients : k.Active }

\* the rows of the query of lines 343-362 for one client and one day: one per
\* matching TimeEntries row, or the single all-NULL row of the LEFT JOIN
GridRows(entries, k, week, day) ==
    LET matched == DayEntries(entries, k.ClientID, week, day)
    IN  IF matched = {}
        THEN { [HoursWorked |-> 0, RateUsed |-> k.DefaultRate, EntryID |-> Null] }
        ELSE { [HoursWorked |-> t.HoursWorked,
                RateUsed |-> IsNull(t.RateUsed, k.DefaultRate),
                EntryID |-> Some(t.EntryID)] : t \in matched }

\* the dict of lines 377-382 built from one row
GridCell(row, k) ==
    [hours |-> OrElse(row.HoursWorked, 0),
     rate |-> OrElse(row.RateUsed, k.DefaultRate),
     entry_id |-> row.EntryID]

\* lines 338-385.  timesheet[client_id]['days'][day] is assigned once per row,
\* so the cell holds the row that comes last; ORDER BY c.ClientName,
\* d.DayOfWeek leaves the order of the rows of one day open.  Each cell is
\* given as the set of the dicts it may hold.
get_weekly_timesheet(entries, week) ==
    [id \in { k.ClientID : k \in ActiveClients } |->
        LET k == CHOOSE x \in ActiveClients : x.ClientID = id
        IN  [DefaultRate |-> k.DefaultRate,
             days |-> [day \in WeekDays |->
                         { GridCell(row, k) : row \in GridRows(entries, k, week, day) }]]]

\* lines 409-414: the rate get_day_entries reports for a row
DayEntryRate(t) ==
    IF t.RateUsed # Null THEN t.RateUsed[1]
    ELSE IF Truthy(DeptBillingRate(t)) THEN DeptBillingRate(t)[1]
         ELSE ClientDefaultRate(t)

\* lines 387-433, the list as a set of dicts
get_day_entries(entries, client_id, week, day) ==
    { [EntryID |-> t.EntryID, ClientDepartmentID |-> t.ClientDepartmentID,
       HoursWorked |-> t.HoursWorked, RateUsed |-> DayEntryRate(t)] :
        t \in { u \in DayEntries(entries, client_id, week, day) :
                  ClientExists(u.ClientID) } }

-----------------------------------------------------------------------------
(* The timesheet operations on an empty ledger *)

LedgerClients == {1, 3}

LedgerWeeks == {0}

LedgerDays == {1, 2}

LedgerDepts == {Null, Some(1)}

LedgerHours == {0, 8}

LedgerRates == {Null, Some(0), Some(90)}

LedgerDayEntries ==
    { << >>,
      << DayEntry(Null, 8, Some(90)), DayEntry(Some(1), 4, Null) >>,
      << DayEntry(Null, 8, Some(90)), DayEntry(Null, 4, Some(90)) >> }

LedgerInit ==
    /\ Invoices = {}
    /\ InvoiceLineItems = {}
    /\ InvoiceLineItems_TimeEntries = {}
    /\ TimeEntries = {}
    /\ identInvoice = 0
    /\ identLineItem = 0
    /\ identLimit = MaxInvoices
    /\ pc = [c \in Conns |-> "idle"]
    /\ frame = [c \in Conns |-> NoFrame]
    /\ ret = [c \in Conns |-> NoReturn]
    /\ hist = [c \in Conns |-> NoHistory]
    /\ driver = "raise"
    /\ dialect \in Dialects
    /\ InitOthers

LedgerNext ==
    \/ \E k \in LedgerClients, w \in LedgerWeeks, d \in LedgerDays, h \in LedgerHours,
          r \in LedgerRates, dept \in LedgerDepts :
           save_time_entry(1, k, w, d, h, r, dept)
    \/ \E k \in LedgerClients, w \in LedgerWeeks, d \in LedgerDays, h \in LedgerHours,
          r \in LedgerRates \ {Null} :
           save_time_entry_desktop(k, w, d, h, r)
    \/ \E k \in LedgerClients, w \in LedgerWeeks, d \in LedgerDays,
          given \in LedgerDayEntries :
           save_day_entries(1, k, w, d, given)
    \/ \E id \in 1..MaxEntries : delete_time_entry(1, id)

LedgerSpec == LedgerInit /\ [][LedgerNext]_vars

-----------------------------------------------------------------------------
(* The timesheet routes (app/routes/timesheet.py) and the request model    *)
(* TimeEntry (app/models.py), and saves with values out of range and with  *)
(* week starts that are not Mondays                                        *)

\* get_week_start (db_helper.py 886-894): date - timedelta(days=date.weekday()),
\* for day numbers counted from a Monday
get_week_start(date) == date - (date % 7)

\* a request body of the routes: a TimeEntry
Body(client_id, week, day, hours, rate) ==
    [client_id |-> client_id, week_start_date |-> week, day_of_week |-> day,
     hours_worked |-> hours, rate_used |-> rate]

\* models.py 54-70: day_of_week ge=1 le=7, hours_worked ge=0 le=24 (and the
\* validator of 63-70), rate_used gt=0; a body that fails is answered with
\* HTTP 422 before the route function runs
TimeEntryValid(e) ==
    /\ e.day_of_week >= 1 /\ e.day_of_week <= 7
    /\ e.hours_worked >= 0 /\ e.hours_worked <= 24
    /\ e.rate_used > 0

\* timesheet.py 79-86: the tests of the single-save route
RouteValid(e) ==
    /\ ~(e.day_of_week < 1 \/ e.day_of_week > 7)
    /\ ~(e.hours_worked < 0)
    /\ ~(e.hours_worked > 24)
    /\ ~(e.rate_used < 0)

\* the outcome of a route, in the shape of last
RouteCall(op, e, status, entry_id) ==
    EntryCall(op, e.client_id, e.week_start_date, e.day_of_week, Null,
              e.hours_worked, Some(e.rate_used), status, entry_id)

\* POST /timesheet (timesheet.py 72-113) on the backend's connection c: the
\* request model, the route's tests (HTTP 400), then db.save_time_entry
\* without dept_id; an exception of the helper is answered with HTTP 500
post_timesheet(c, e) ==
    /\ pc[c] = "idle"
    /\ identEntry < MaxEntries \/ e.hours_worked = 0
    /\ IF ~TimeEntryValid(e)
       THEN /\ last' = RouteCall("post_timesheet", e, "422", Null)
            /\ UNCHANGED <<TimeEntries, identEntry, InvoiceLineItems,
                           InvoiceLineItems_TimeEntries>>
       ELSE IF ~RouteValid(e)
       THEN /\ last' = RouteCall("post_timesheet", e, "ValidationError", Null)
            /\ UNCHANGED <<TimeEntries, identEntry, InvoiceLineItems,
                           InvoiceLineItems_TimeEntries>>
       ELSE IF dialect = "rejects"
       THEN /\ last' = RouteCall("post_timesheet", e, "500", Null)
            /\ UNCHANGED <<TimeEntries, identEntry, InvoiceLineItems,
                           InvoiceLineItems_TimeEntries>>
       ELSE \E existing \in Fetched(MatchingEntries(TimeEntries, e.client_id,
                                                     e.week_start_date, e.day_of_week,
                                                     Null)) :
              LET r == Upsert(TimeEntries, existing, e.client_id, e.week_start_date,
                              e.day_of_week, Null, e.hours_worked, Some(e.rate_used),
                              identEntry + 1)
                  ids == DeletedIds(TimeEntries, r.entries)
              IN  IF DeleteRefused(InvoiceLineItems_TimeEntries, ids)
                  THEN /\ last' = RouteCall("post_timesheet", e, "500", Null)
                       /\ UNCHANGED <<TimeEntries, identEntry, InvoiceLineItems,
                                      InvoiceLineItems_TimeEntries>>
                  ELSE /\ TimeEntries' = r.entries
                       /\ identEntry' = identEntry + r.inserted
                       /\ CommitAfterDelete(c, ids)
                       /\ last' = RouteCall("post_timesheet", e, "ok", r.entry_id)
    /\ UNCHANGED <<Invoices, identInvoice, identLineItem, pc, frame, ret, hist, driver,
                   PaymentTerms, identLimit, dialect, entryKey, DefaultRate>>

RECURSIVE SaveAll(_, _, _, _, _)
\* the loop of timesheet.py 124-142 over the bodies given: a body with hours
\* out of range is passed over (continue, 127-128), a save that raises is
\* noted in errors and the loop goes on; yields the outcomes it can have:
\* the ledger, the link rows, the IDENTITY counter and saved_count
SaveAll(given, entries, links, ident, saved) ==
    IF given = << >>
    THEN { [entries |-> entries, links |-> links, ident |-> ident, saved |-> saved] }
    ELSE LET e == Head(given)
         IN  IF e.hours_worked < 0 \/ e.hours_worked > 24
             THEN SaveAll(Tail(given), entries, links, ident, saved)
             ELSE IF dialect = "rejects"
             THEN SaveAll(Tail(given), entries, links, ident, saved)
             ELSE UNION {
                    LET r == Upsert(entries, existing, e.client_id, e.week_start_date,
                                    e.day_of_week, Null, e.hours_worked,
                                    Some(e.rate_used), ident + 1)
                        ids == DeletedIds(entries, r.entries)
                    IN  IF DeleteRefused(links, ids)
                        THEN SaveAll(Tail(given), entries, links, ident, saved)
                        ELSE SaveAll(Tail(given), r.entries, LinksAfterDelete(links, ids),
                                     ident + r.inserted, saved + 1) :
                    existing \in Fetched(MatchingEntries(entries, e.client_id,
                                                         e.week_start_date,
                                                         e.day_of_week, Null)) }

\* how many rows the loop can insert at most
Inserts(given) ==
    Cardinality({ i \in DOMAIN given : given[i].hours_worked > 0 })

\* POST /timesheet/save-all (timesheet.py 115-157) on connection c: the request
\* model on every body, then the loop; the answer is "success" with
\* saved_count whatever the loop met
post_timesheet_save_all(c, given) ==
    LET call == [EntryCall("post_timesheet_save_all", 0, 0, 0, Null, 0, Null, "ok", Null)
                   EXCEPT !.entries = given]
    IN  /\ pc[c] = "idle"
        /\ identEntry + Inserts(given) <= MaxEntries
        /\ IF \E i \in DOMAIN given : ~TimeEntryValid(given[i])
           THEN /\ last' = [call EXCEPT !.status = "422"]
                /\ UNCHANGED <<TimeEntries, identEntry, InvoiceLineItems,
                               InvoiceLineItems_TimeEntries>>
           ELSE \E out \in SaveAll(given, TimeEntries, InvoiceLineItems_TimeEntries,
                                    identEntry, 0) :
                  /\ TimeEntries' = out.entries
                  /\ identEntry' = out.ident
                  /\ IF out.saved > 0
                     THEN /\ InvoiceLineItems' = CommitRows(c, InvoiceLineItems)
                          /\ InvoiceLineItems_TimeEntries' = CommitRows(c, out.links)
                     ELSE UNCHANGED <<InvoiceLineItems, InvoiceLineItems_TimeEntries>>
                  /\ last' = [call EXCEPT !.saved_count = out.saved]
        /\ UNCHANGED <<Invoices, identInvoice, identLineItem, pc, frame, ret, hist,
                       driver, PaymentTerms, identLimit, dialect, entryKey, DefaultRate>>

\* the values the saves are given: a Monday and the Wednesday after it, a day
\* of the week and a day number out of range, hours in and out of range, a
\* rate and a negative rate
IntakeWeeks == {0, 2}

IntakeDays == {1, 9}

IntakeHours == {0, 8, 30}

IntakeRates == {90, -5}

IntakeBodies ==
    { Body(1, w, d, h, r) :
        w \in IntakeWeeks, d \in IntakeDays, h \in IntakeHours, r \in IntakeRates }

IntakeBatches ==
    { << Body(1, 0, 1, 8, 90), Body(1, 2, 1, 8, 90) >>,
      << Body(1, 0, 1, 8, 90), Body(1, 0, 1, 30, 90) >> }

IntakeDayEntries ==
    { << DayEntry(Null, 8, Some(90)) >>,
      << DayEntry(Null, 30, Some(-5)) >> }

IntakeNext ==
    \/ \E e \in IntakeBodies :
           save_time_entry(1, e.client_id, e.week_start_date, e.day_of_week,
                           e.hours_worked, Some(e.rate_used), Null)
    \/ \E e \in IntakeBodies :
           save_time_entry_desktop(e.client_id, e.week_start_date, e.day_of_week,
                                   e.hours_worked, Some(e.rate_used))
    \/ \E w \in IntakeWeeks, d \in IntakeDays, given \in IntakeDayEntries :
           save_day_entries(1, 1, w, d, given)
    \/ \E e \in IntakeBodies : post_timesheet(1, e)
    \/ \E given \in IntakeBatches : post_timesheet_save_all(1, given)

IntakeSpec == LedgerInit /\ [][IntakeNext]_vars

-----------------------------------------------------------------------------
(* One backend instance and the desktop application on a ledger whose      *)
(* entry gets billed: invoices are created and deleted while the entry is  *)
(* saved again and deleted                                                 *)

\* the call names entry 1 and an entry id that is not stored when the ledger
\* is new
BilledRequests == { Request(1, 7, << Item(Null, 8, 100, <<1, 2>>) >>) }

BilledHours == {0, 6}

BilledDayEntries == { << >>, << DayEntry(Null, 6, Some(90)) >> }

BilledInit ==
    /\ Invoices = {}
    /\ InvoiceLineItems = {}
    /\ InvoiceLineItems_TimeEntries = {}
    /\ TimeEntries = { Entry(1, 1, Null, 0, 1, 8, Some(100)) }
    /\ identInvoice = 0
    /\ identLineItem = 0
    /\ identLimit = MaxInvoices
    /\ identEntry = 1
    /\ pc = [c \in Conns |-> "idle"]
    /\ frame = [c \in Conns |-> NoFrame]
    /\ ret = [c \in Conns |-> NoReturn]
    /\ hist = [c \in Conns |-> NoHistory]
    /\ driver \in DriverOutcomes
    /\ dialect \in Dialects
    /\ entryKey \in EntryKeys
    /\ DefaultRate = StoredRates
    /\ PaymentTerms = StoredTerms
    /\ last = NoCall

BilledNext ==
    \/ \E req \in BilledRequests : CI_Begin(1, req)
    \/ CI_Header(1)
    \/ CI_LineItem(1)
    \/ CI_Link(1)
    \/ CI_Commit(1)
    \/ \E id \in 1..MaxInvoices : delete_invoice(1, id, FALSE)
    \/ \E h \in BilledHours : save_time_entry(1, 1, 0, 1, h, Some(90), Null)
    \/ \E given \in BilledDayEntries : save_day_entries(1, 1, 0, 1, given)
    \/ \E id \in 1..MaxEntries : delete_time_entry(1, id)
    \/ \E h \in BilledHours :
           pc[1] = "idle" /\ save_time_entry_desktop(1, 0, 1, h, Some(90))

BilledSpec == BilledInit /\ [][BilledNext]_vars

-----------------------------------------------------------------------------
(* PUT /clients/{client_id} (app/routes/clients.py, lines 99-149) and the  *)
(* desktop helper's update_client                                          *)

\* a request that changes nothing in the store
ClientRefused(op, client_id, rate, terms, status) ==
    /\ last' = [ClientCall(op, client_id) EXCEPT
                    !.rate = rate, !.terms = terms, !.status = status]
    /\ UNCHANGED <<Invoices, InvoiceLineItems, InvoiceLineItems_TimeEntries,
                   TimeEntries, identInvoice, identLineItem, pc, frame, ret, hist,
                   driver, PaymentTerms, identLimit, identEntry, dialect, entryKey,
                   DefaultRate>>

\* the route: the request model ClientUpdate (models.py, lines 30-38) has
\* no bounds; the route tests client.rate < 0 only (lines 112-113) and hands
\* client.terms on as it came (lines 115-116). A body without fields raises
\* HTTPException(400) inside the try, which "except Exception" answers with
\* HTTP 500.
put_client(c, client_id, rate, terms) ==
    /\ pc[c] = "idle"
    /\ IF rate # Null /\ rate[1] < 0
       THEN ClientRefused("put_client", client_id, rate, terms, "ValidationError")
       ELSE IF rate = Null /\ terms = Null
            THEN ClientRefused("put_client", client_id, rate, terms, "500")
            ELSE update_client(c, client_id, rate, terms)

\* validate_rate (rate < 0 or rate > 999999.99) and validate_payment_terms
\* (terms < 0 or terms > 365) of the desktop helper, lines 95-109
DesktopClientValid(rate, terms) ==
    /\ rate # Null => (rate[1] >= 0 /\ rate[1] <= 999999)
    /\ terms # Null => (terms[1] >= 0 /\ terms[1] <= 365)

\* the desktop helper's update_client: it validates, returns False when no
\* column is given, and otherwise updates and commits on its own connection
update_client_desktop(client_id, rate, terms) ==
    IF ~DesktopClientValid(rate, terms)
    THEN ClientRefused("update_client_desktop", client_id, rate, terms, "ValidationError")
    ELSE IF rate = Null /\ terms = Null
    THEN ClientRefused("update_client_desktop", client_id, rate, terms, "False")
    ELSE /\ DefaultRate' = SetColumn(DefaultRate, client_id, rate)
         /\ PaymentTerms' = SetColumn(PaymentTerms, client_id, terms)
         /\ last' = [ClientCall("update_client_desktop", client_id) EXCEPT
                         !.rate = rate, !.terms = terms]
         /\ UNCHANGED <<Invoices, InvoiceLineItems, InvoiceLineItems_TimeEntries,
                        TimeEntries, identInvoice, identLineItem, pc, frame, ret,
                        hist, driver, identLimit, identEntry, dialect, entryKey>>

\* the rates and terms a request carries: absent, inside the bounds, on and
\* beyond them
PutRates == { Null, Some(75), Some(0), Some(-5), Some(20000) }

PutTerms == { Null, Some(45), Some(-5), Some(400) }

\* a stored client, and an id without a row
PutClients == { 1, 4 }

ClientInit == SerialInitOver({}) /\ driver = "row"

ClientNext ==
    \/ \E k \in PutClients, r \in PutRates, t \in PutTerms : put_client(1, k, r, t)
    \/ \E k \in PutClients, r \in PutRates, t \in PutTerms :
           update_client_desktop(k, r, t)

ClientSpec == ClientInit /\ [][ClientNext]_vars

-----------------------------------------------------------------------------

Next ==
    \/ \E c \in Conns, req \in InvoiceRequests : CI_Begin(c, req)
    \/ \E c \in Conns : CI_Header(c)
    \/ \E c \in Conns : CI_LineItem(c)
    \/ \E c \in Conns : CI_Link(c)
    \/ \E c \in Conns : CI_Commit(c)
    \/ \E c \in Conns, id \in 1..MaxInvoices, failed \in BOOLEAN :
           delete_invoice(c, id, failed)

Spec == Init /\ [][Next]_vars

-----------------------------------------------------------------------------
(* Vocabulary of the properties *)

\* the line items stored under an invoice id
LineItemsOf(items, invoice_id) == { li \in items : li.InvoiceID = invoice_id }

\* the link rows whose line item is stored under an invoice id
LinksOf(links, items, invoice_id) ==
    { l \in links : \E li \in LineItemsOf(items, invoice_id) : li.LineItemID = l.LineItemID }

\* the link rows of one time entry
LinksOn(links, entry_id) == { l \in links : l.TimeEntryID = entry_id }

\* the entry ids of one line-item spec
IdsOfItem(item) == { item.entry_ids[k] : k \in DOMAIN item.entry_ids }

RECURSIVE SeqValue(_)
\* the number a sequence of decimal digits denotes
SeqValue(digits) ==
    IF digits = << >> THEN 0
    ELSE 10 * SeqValue(SubSeq(digits, 1, Len(digits) - 1)) + digits[Len(digits)]

\* the first and the last of a set of dates
Earliest(dates) == CHOOSE d \in dates : \A x \in dates : d <= x
Latest(dates) == CHOOSE d \in dates : \A x \in dates : x <= d

\* the entry ids a result lists, over all its groups
ListedIds(result) == UNION { g.EntryIDs : g \in result.departments }

\* a result's hour totals are those of the entries it lists
HoursAreOfListed(result, entries) ==
    /\ \A g \in result.departments :
           LET G == { t \in entries : t.EntryID \in g.EntryIDs }
           IN  g.TotalHours = SumOver([t \in G |-> t.HoursWorked], G)
    /\ LET L == { t \in entries : t.EntryID \in ListedIds(result) }
       IN  result.total_hours = SumOver([t \in L |-> t.HoursWorked], L)

-----------------------------------------------------------------------------
(* C1  No double billing: in every state reachable through create_invoice  *)
(* calls over any entry_ids (overlapping between calls, repeated within a  *)
(* call), every TimeEntry id is carried by at most one row of the link     *)
(* table, uncommitted rows included.                                       *)
C1_NoDoubleBilling ==
    \A l \in InvoiceLineItems_TimeEntries :
        Cardinality(LinksOn(InvoiceLineItems_TimeEntries, l.TimeEntryID)) <= 1

\* a call given an entry id that was already linked has stored its header and
\* a line item, has ended in an error at the link INSERT, and the earlier link
\* is still stored
C1_Witness ==
    \E c \in Conns :
        /\ hist[c].conflict
        /\ driver = "row"
        /\ ret[c].status = "DatabaseError"
        /\ InvoiceExists(Invoices, ret[c].invoice_id)
        /\ LineItemsOf(InvoiceLineItems, ret[c].invoice_id) # {}
        /\ \E l \in CommittedRows(InvoiceLineItems_TimeEntries) :
               l.TimeEntryID \in EntryIdsOf(hist[c].items)

-----------------------------------------------------------------------------
(* C2  Two create_invoice calls with overlapping entry_ids whose steps      *)
(* interleave: once both have ended, every entry id they share (and that   *)
(* exists) is linked exactly once, to a line item of one of the two        *)
(* invoices.                                                               *)
C2_ExactlyOnePerSharedEntry ==
    \A c, d \in Conns :
        ( /\ c # d
          /\ pc[c] = "idle" /\ pc[d] = "idle"
          /\ ret[c].status # "none" /\ ret[d].status # "none"
          /\ hist[c].raced /\ hist[d].raced
          /\ InvoiceExists(Invoices, ret[c].invoice_id)
          /\ InvoiceExists(Invoices, ret[d].invoice_id) )
        => \A t \in TimeEntries :
               t.EntryID \in EntryIdsOf(hist[c].items) \cap EntryIdsOf(hist[d].items)
               => Cardinality(
                      LinksOn(LinksOf(InvoiceLineItems_TimeEntries, InvoiceLineItems,
                                      ret[c].invoice_id)
                              \cup LinksOf(InvoiceLineItems_TimeEntries, InvoiceLineItems,
                                           ret[d].invoice_id),
                              t.EntryID)) = 1

-----------------------------------------------------------------------------
(* C3  A create_invoice call given an entry id that is already linked ends *)
(* with the error ConflictAlreadyBilled and leaves no invoice header, no   *)
(* line item and no link of its own.                                       *)
C3_ConflictRejectedCleanly ==
    \A c \in Conns :
        (hist[c].conflict /\ pc[c] = "idle" /\ ret[c].status # "none")
        => /\ ret[c].status = "ConflictAlreadyBilled"
           /\ ~InvoiceExists(Invoices, ret[c].invoice_id)
           /\ LineItemsOf(InvoiceLineItems, ret[c].invoice_id) = {}

-----------------------------------------------------------------------------
(* C4  create_invoice is all-or-nothing: after a call that ended in an     *)
(* error, no header, line item or link written by that call is durably     *)
(* stored.                                                                 *)
C4_AllOrNothing ==
    \A c \in Conns :
        ret[c].status = "DatabaseError"
        => /\ ~InvoiceExists(Invoices, ret[c].invoice_id)
           /\ LineItemsOf(CommittedRows(InvoiceLineItems), ret[c].invoice_id) = {}
           /\ LinksOf(CommittedRows(InvoiceLineItems_TimeEntries), InvoiceLineItems,
                      ret[c].invoice_id) = {}

-----------------------------------------------------------------------------
(* C5  While a committed link row of a time entry exists, no result of     *)
(* get_hours_grouped_by_department, for any client and date range and on   *)
(* any connection, lists that entry in a group or counts its hours.        *)
C5_BilledNeverUnbilled ==
    \A l \in CommittedRows(InvoiceLineItems_TimeEntries) :
        \A c \in Conns, k \in QueryClients, s \in QueryDates, e \in QueryDates :
            s <= e =>
                LET r == get_hours_grouped_by_department(
                             TimeEntries, Visible(c, InvoiceLineItems_TimeEntries), k, s, e)
                IN  /\ l.TimeEntryID \notin ListedIds(r)
                    /\ HoursAreOfListed(r, TimeEntries)

\* a call has returned successfully and a link it wrote for a stored entry is
\* committed
C5_Witness ==
    \E c \in Conns :
        /\ ret[c].status = "ok"
        /\ \E l \in CommittedRows(LinksOf(InvoiceLineItems_TimeEntries, InvoiceLineItems,
                                          ret[c].invoice_id)) :
               \E t \in TimeEntries :
                   /\ t.EntryID = l.TimeEntryID
                   /\ EntryDate(t) \in QueryDates

-----------------------------------------------------------------------------
(* C6  Release on delete: in the state after delete_invoice has removed an *)
(* invoice, every stored time entry that was linked to one of its line     *)
(* items is listed, with its hours counted, by                             *)
(* get_hours_grouped_by_department for its client and the date ranges that *)
(* cover its calendar date: the day itself, and the ranges reaching to the *)
(* first and the last query date.                                          *)
C6_ReleaseOnDelete ==
    [][ \A i \in Invoices \ Invoices' :
          \A l \in LinksOf(InvoiceLineItems_TimeEntries, InvoiceLineItems, i.InvoiceID) :
            \A t \in TimeEntries' :
              t.EntryID = l.TimeEntryID =>
                \A view \in { Visible(c, InvoiceLineItems_TimeEntries') : c \in Conns } :
                  \A s \in {Earliest(QueryDates), EntryDate(t)},
                     e \in {EntryDate(t), Latest(QueryDates)} :
                      LET r == get_hours_grouped_by_department(
                                   TimeEntries', view, t.ClientID, s, e)
                      IN  /\ t.EntryID \in ListedIds(r)
                          /\ HoursAreOfListed(r, TimeEntries')
      ]_vars

\* an invoice whose call had returned successfully with links has been
\* deleted, and an entry it had claimed is unbilled again
C6_Witness ==
    \E c \in Conns :
        /\ ret[c].status = "ok"
        /\ driver = "row"
        /\ ~InvoiceExists(Invoices, ret[c].invoice_id)
        /\ \E t \in TimeEntries :
               /\ t.EntryID \in EntryIdsOf(hist[c].items)
               /\ LinksOn(InvoiceLineItems_TimeEntries, t.EntryID) = {}
               /\ t.EntryID \in ListedIds(get_hours_grouped_by_department(
                                    TimeEntries, CommittedRows(InvoiceLineItems_TimeEntries),
                                    t.ClientID, EntryDate(t), EntryDate(t)))

-----------------------------------------------------------------------------
(* C7  delete_invoice is atomic and confined to its invoice: a step        *)
(* removes at most one header; a line item disappears exactly when its     *)
(* invoice's header disappears in the same step, and a link row exactly    *)
(* when its line item's header does; no TimeEntry is removed.  So after a  *)
(* successful delete none of the invoice's rows remain, and a delete that  *)
(* fails, or that targets another invoice, removes none of them.           *)
C7_DeleteAtomic ==
    [][ LET gone == { i.InvoiceID : i \in Invoices \ Invoices' }
        IN  /\ Cardinality(gone) <= 1
            /\ TimeEntries' = TimeEntries
            /\ \A li \in InvoiceLineItems :
                   (li.InvoiceID \in gone)
                   <=> (\A n \in InvoiceLineItems' : n.LineItemID # li.LineItemID)
            /\ \A l \in InvoiceLineItems_TimeEntries :
                   (\E li \in InvoiceLineItems :
                        li.LineItemID = l.LineItemID /\ li.InvoiceID \in gone)
                   <=> (\A n \in InvoiceLineItems_TimeEntries' :
                            n.LineItemID # l.LineItemID \/ n.TimeEntryID # l.TimeEntryID)
      ]_vars

\* an invoice created with line items and links has been deleted with all of
\* them, while another invoice still holds its line items
C7_Witness ==
    \E c \in Conns :
        /\ ret[c].status = "ok"
        /\ driver = "row"
        /\ hist[c].items # << >>
        /\ ~InvoiceExists(Invoices, ret[c].invoice_id)
        /\ LineItemsOf(InvoiceLineItems, ret[c].invoice_id) = {}
        /\ \E i \in Invoices : LineItemsOf(InvoiceLineItems, i.InvoiceID) # {}

-----------------------------------------------------------------------------
(* C8  After create_invoice has returned successfully, every entry id of   *)
(* every line-item spec that names a stored TimeEntry has a committed link *)
(* row binding it to the line item created for that spec (the k-th line    *)
(* item of the invoice for the k-th spec), with HoursIncluded equal to the *)
(* entry's HoursWorked.                                                    *)
C8_LinksWritten ==
    \A c \in Conns :
        (ret[c].status = "ok" /\ InvoiceExists(Invoices, ret[c].invoice_id))
        => LET mine == LineItemsOf(InvoiceLineItems, ret[c].invoice_id)
           IN  \A k \in DOMAIN hist[c].items :
                 \A t \in TimeEntries :
                   t.EntryID \in IdsOfItem(hist[c].items[k])
                   => \E l \in CommittedRows(InvoiceLineItems_TimeEntries), li \in mine :
                        /\ l.TimeEntryID = t.EntryID
                        /\ l.LineItemID = li.LineItemID
                        /\ Cardinality({ x \in mine : x.LineItemID < li.LineItemID }) = k - 1
                        /\ l.HoursIncluded = t.HoursWorked

-----------------------------------------------------------------------------
(* C9  For every invoice header that create_invoice has stored and whose   *)
(* call has ended: TotalHours and TotalAmount are the sums of the supplied *)
(* specs' total_hours and total_hours x hourly_rate, every stored line     *)
(* item's Amount is its TotalHours x HourlyRate, and the header totals are *)
(* the sums over the invoice's stored line items.                          *)
C9_TotalsMatch ==
    \A c \in Conns :
        \A i \in Invoices :
            (pc[c] = "idle" /\ ret[c].status # "none" /\ i.InvoiceID = ret[c].invoice_id)
            => LET its    == hist[c].items
                   stored == LineItemsOf(CommittedRows(InvoiceLineItems), i.InvoiceID)
               IN  /\ i.TotalHours = SumSeq([k \in DOMAIN its |-> its[k].total_hours])
                   /\ i.TotalAmount =
                          SumSeq([k \in DOMAIN its |->
                                     its[k].total_hours * its[k].hourly_rate])
                   /\ \A li \in stored : li.Amount = li.TotalHours * li.HourlyRate
                   /\ i.TotalHours = SumOver([li \in stored |-> li.TotalHours], stored)
                   /\ i.TotalAmount = SumOver([li \in stored |-> li.Amount], stored)

-----------------------------------------------------------------------------
(* C10  The number a call takes for an invoice dated in year Y is          *)
(* INV-Y-NNNN with NNNN four digits, denoting the smallest n in 1..999     *)
(* that no stored invoice number of year Y carries when the call probes    *)
(* (so 0001 for the first invoice of a year); the header the call then     *)
(* stores carries that number.                                             *)
C10_SmallestFreeNumber ==
    [][ \A c \in Conns :
          /\ (pc[c] = "idle" /\ pc'[c] = "header") =>
                LET n    == frame'[c].invoice_number[1]
                    Y    == Year(frame'[c].invoice_date)
                    used == { SeqValue(i.InvoiceNumber.seq) :
                                i \in { j \in Invoices : j.InvoiceNumber.year = Y } }
                IN  /\ n.prefix = "INV"
                    /\ n.year = Y
                    /\ Len(n.seq) = 4
                    /\ SeqValue(n.seq) \in 1..999
                    /\ SeqValue(n.seq) \notin used
                    /\ \A m \in 1..(SeqValue(n.seq) - 1) : m \in used
          /\ (pc[c] = "header" /\ pc'[c] = "items") =>
                \E i \in Invoices' \ Invoices :
                    /\ i.InvoiceID = frame'[c].invoice_id
                    /\ i.InvoiceNumber = frame[c].invoice_number[1]
      ]_vars

\* two invoices of one year are stored, numbered 0001 and 0002
C10_Witness ==
    \E i, j \in Invoices :
        /\ i.InvoiceNumber.year = j.InvoiceNumber.year
        /\ i.InvoiceNumber.seq = <<0, 0, 0, 1>>
        /\ j.InvoiceNumber.seq = <<0, 0, 0, 2>>

-----------------------------------------------------------------------------
(* C11  Invoice numbers are unique: in every reachable state no two stored *)
(* invoice headers carry the same InvoiceNumber, also when two calls for   *)
(* one year have both probed for a free number before either inserted its  *)
(* header.                                                                 *)
C11_NumbersUnique ==
    \A i, j \in Invoices :
        i.InvoiceNumber = j.InvoiceNumber => i.InvoiceID = j.InvoiceID

\* two calls were in progress together; one stored its header, the other had
\* probed the same number and was refused at its header INSERT
C11_Witness ==
    \E c, d \in Conns :
        /\ c # d
        /\ hist[c].raced /\ hist[d].raced
        /\ ret[c] = Returned("DatabaseError", 0)
        /\ ClientKeyHolds(hist[c].client_id)
        /\ \E i \in Invoices :
               /\ pc[d] # "idle" \/ ret[d].invoice_id = i.InvoiceID
               /\ i.InvoiceNumber.seq = ZFill(Digits(1), PadWidth)

-----------------------------------------------------------------------------
(* Vocabulary of the claims about the number space and the call's inputs *)

\* the sequence numbers that the stored invoice numbers of a year denote
UsedSequence(rows, year) ==
    { SeqValue(i.InvoiceNumber.seq) : i \in { j \in rows : j.InvoiceNumber.year = year } }

\* every sequence number 1..999 of the year is in use
YearIsFull(rows, year) == (1..999) \subseteq UsedSequence(rows, year)

\* the step in which connection c is given a create_invoice call
BeginStep(c) ==
    /\ pc[c] = "idle"
    /\ pc'[c] = "header" \/ hist'[c] # hist[c] \/ ret'[c] # ret[c]

\* the step writes no header, line item or link and takes no IDENTITY value
NothingWritten ==
    /\ Invoices' = Invoices
    /\ InvoiceLineItems' = InvoiceLineItems
    /\ InvoiceLineItems_TimeEntries' = InvoiceLineItems_TimeEntries
    /\ identInvoice' = identInvoice

-----------------------------------------------------------------------------
-----------------------------------------------------------------------------
(* C13  A create_invoice call for a client_id that no Clients row carries  *)
(* ends with the error NotFound, and no invoice header, line item or link  *)
(* of it is stored.                                                        *)
C13_MissingClientNotFound ==
    \A c \in Conns :
        ( /\ pc[c] = "idle"
          /\ ret[c].status # "none"
          /\ ~ClientExists(hist[c].client_id) )
        => /\ ret[c].status = "NotFound"
           /\ \A i \in Invoices : i.ClientID # hist[c].client_id
           /\ LineItemsOf(InvoiceLineItems, ret[c].invoice_id) = {}
           /\ LinksOf(InvoiceLineItems_TimeEntries, InvoiceLineItems,
                      ret[c].invoice_id) = {}

-----------------------------------------------------------------------------
(* C14  A create_invoice call with an empty list of line-item specs ends   *)
(* with the error InvalidArgument and stores no header; and no invoice     *)
(* that a call has returned successfully is without a line item.           *)
C14_EmptyRejected ==
    \A c \in Conns :
        /\ ( /\ pc[c] = "idle"
             /\ ret[c].status # "none"
             /\ hist[c].items = << >> )
           => /\ ret[c].status = "InvalidArgument"
              /\ ~InvoiceExists(Invoices, ret[c].invoice_id)
        /\ (ret[c].status = "ok" /\ InvoiceExists(Invoices, ret[c].invoice_id))
           => LineItemsOf(CommittedRows(InvoiceLineItems), ret[c].invoice_id) # {}

-----------------------------------------------------------------------------
(* C15  A header stored for an existing client has DueDate = InvoiceDate   *)
(* plus the PaymentTerms the client's row holds in the step that stores    *)
(* the header; and no step, a change of a client's PaymentTerms included,  *)
(* changes the DueDate of a header that is already stored.                 *)
C15_DueDateFromTerms ==
    [][ /\ \A i \in Invoices' :
             ( /\ \A j \in Invoices : j.InvoiceID # i.InvoiceID
               /\ ClientExists(i.ClientID) )
             => i.DueDate = i.InvoiceDate + PaymentTerms[i.ClientID]
        /\ \A i \in Invoices, j \in Invoices' :
             i.InvoiceID = j.InvoiceID => j.DueDate = i.DueDate
      ]_vars

\* one invoice was created before its client's terms were changed and keeps
\* its due date, another was created after the change with the new terms
C15_Witness ==
    \E i, j \in Invoices :
        /\ i.ClientID = j.ClientID
        /\ PaymentTerms[i.ClientID] # StoredTerms[i.ClientID]
        /\ i.DueDate = i.InvoiceDate + StoredTerms[i.ClientID]
        /\ j.DueDate = j.InvoiceDate + PaymentTerms[j.ClientID]

-----------------------------------------------------------------------------
(* Vocabulary of the claims about the timesheet *)

\* two rows carry the same (ClientID, DepartmentID, WeekStartDate, DayOfWeek)
SameKey(t, u) ==
    /\ t.ClientID = u.ClientID
    /\ t.ClientDepartmentID = u.ClientDepartmentID
    /\ t.WeekStartDate = u.WeekStartDate
    /\ t.DayOfWeek = u.DayOfWeek

\* at most one row per key
OnePerKey(entries) ==
    \A t, u \in entries : SameKey(t, u) => t.EntryID = u.EntryID

\* the rows of a ledger that carry the key of a call
KeyRows(entries, call) ==
    { t \in entries : /\ t.ClientID = call.client_id
                      /\ t.ClientDepartmentID = call.dept_id
                      /\ t.WeekStartDate = call.week
                      /\ t.DayOfWeek = call.day }

-----------------------------------------------------------------------------
(* C16  save_time_entry is an upsert keyed by (client, department, week,   *)
(* day): every call returns; with a matching row, hours > 0 changes that   *)
(* row's hours and rate in place and returns its id, hours = 0 removes it  *)
(* and returns null; with no matching row, hours > 0 adds one row with a   *)
(* new id and returns that id, hours = 0 changes nothing and returns null; *)
(* rows with another key are left as they are.                             *)
C16_Upsert ==
    [][ (last'.op \in {"save_time_entry", "save_time_entry_desktop"})
        => LET call  == last'
               match == KeyRows(TimeEntries, call)
           IN  /\ call.status = "ok"
               /\ TimeEntries \ match = TimeEntries' \ KeyRows(TimeEntries', call)
               /\ IF match # {}
                  THEN IF call.hours > 0
                       THEN \E t \in match :
                              /\ call.entry_id = Some(t.EntryID)
                              /\ TimeEntries' =
                                   (TimeEntries \ {t}) \cup
                                   {[t EXCEPT !.HoursWorked = call.hours,
                                              !.RateUsed = call.rate]}
                       ELSE /\ call.entry_id = Null
                            /\ \E t \in match : TimeEntries' = TimeEntries \ {t}
                  ELSE IF call.hours > 0
                       THEN \E n \in TimeEntries' \ TimeEntries :
                              /\ TimeEntries' = TimeEntries \cup {n}
                              /\ \A t \in TimeEntries : t.EntryID # n.EntryID
                              /\ call.entry_id = Some(n.EntryID)
                              /\ n.HoursWorked = call.hours
                              /\ n.RateUsed = call.rate
                       ELSE /\ call.entry_id = Null
                            /\ TimeEntries' = TimeEntries
      ]_vars

-----------------------------------------------------------------------------
(* C17  In every state reached through save_time_entry and                 *)
(* save_day_entries calls, at most one TimeEntries row carries a given     *)
(* (ClientID, DepartmentID, WeekStartDate, DayOfWeek).                     *)
C17_OneRowPerKey == OnePerKey(TimeEntries)

-----------------------------------------------------------------------------
(* C18  Zero hours deletes: when save_time_entry is called with hours 0    *)
(* for an active client and a row with the call's key is stored, then in   *)
(* the state after the call get_weekly_timesheet for that week reports 0   *)
(* hours and a null entry_id in the client's cell of that day.             *)
C18_ZeroHoursClearsCell ==
    [][ ( /\ last'.op = "save_time_entry"
          /\ last'.hours = 0
          /\ KeyRows(TimeEntries, last') # {}
          /\ \E k \in ActiveClients : k.ClientID = last'.client_id )
        => \A cell \in get_weekly_timesheet(TimeEntries', last'.week)
                           [last'.client_id].days[last'.day] :
               cell.hours = 0 /\ cell.entry_id = Null
      ]_vars

-----------------------------------------------------------------------------
(* C19  For every ledger with one row per key and every week,              *)
(* get_weekly_timesheet returns exactly the active clients, each with a    *)
(* cell for every day 1..7; every stored row of the week of an active      *)
(* client is what the cell of its client and day reports (its hours and    *)
(* its entry_id); a cell without a stored row reports 0 hours, a null      *)
(* entry_id and the client's default rate.                                 *)
C19_GridComplete ==
    OnePerKey(TimeEntries) =>
    \A w \in LedgerWeeks :
        LET grid == get_weekly_timesheet(TimeEntries, w)
        IN  /\ DOMAIN grid = { k.ClientID : k \in { x \in Clients : x.Active } }
            /\ \A id \in DOMAIN grid : DOMAIN grid[id].days = 1..7
            /\ \A t \in TimeEntries :
                 (t.WeekStartDate = w /\ t.ClientID \in DOMAIN grid)
                 => \A cell \in grid[t.ClientID].days[t.DayOfWeek] :
                        /\ cell.entry_id = Some(t.EntryID)
                        /\ cell.hours = t.HoursWorked
            /\ \A id \in DOMAIN grid, d \in 1..7 :
                 (\A t \in TimeEntries :
                      ~(t.ClientID = id /\ t.WeekStartDate = w /\ t.DayOfWeek = d))
                 => grid[id].days[d] =
                        { [hours |-> 0, entry_id |-> Null,
                           rate |-> (CHOOSE k \in Clients : k.ClientID = id).DefaultRate] }

-----------------------------------------------------------------------------
(* C20  Rate precedence: for every stored row of an active client, the     *)
(* rate get_day_entries reports for it, the rate of the weekly grid cell   *)
(* that shows it and the rate the unbilled aggregation multiplies its      *)
(* hours with are all the row's own rate if that is present and positive,  *)
(* else its department's billing rate if it has a department that defines  *)
(* one, else the client's default rate.                                    *)
C20_RatePrecedence ==
    \A t \in TimeEntries :
        (\E k \in Clients : k.ClientID = t.ClientID /\ k.Active)
        => LET k    == CHOOSE x \in Clients : x.ClientID = t.ClientID
               dept == { d \in ClientDepartments :
                           t.ClientDepartmentID = <<d.ClientDepartmentID>>
                           /\ d.BillingRate # << >> }
               rate == IF t.RateUsed # << >> /\ t.RateUsed[1] > 0 THEN t.RateUsed[1]
                       ELSE IF dept # {} THEN (CHOOSE d \in dept : TRUE).BillingRate[1]
                       ELSE k.DefaultRate
           IN  /\ \A e \in get_day_entries(TimeEntries, t.ClientID, t.WeekStartDate,
                                           t.DayOfWeek) :
                      e.EntryID = t.EntryID => e.RateUsed = rate
               /\ \A cell \in get_weekly_timesheet(TimeEntries, t.WeekStartDate)
                                  [t.ClientID].days[t.DayOfWeek] :
                      cell.entry_id = <<t.EntryID>> => cell.rate = rate
               /\ ResolvedRate(t) = rate

-----------------------------------------------------------------------------
(* Vocabulary of the claims about the invoice status *)

\* an invoice header without its status
WithoutStatus(i) == [i EXCEPT !.Status = "none"]

\* rows without the transaction that wrote them
Content(rows) == { [r EXCEPT !.tx = Committed] : r \in rows }

\* the step is a call of update_invoice_status
StatusStep == last'.op = "update_invoice_status" /\ last' # last

-----------------------------------------------------------------------------
-----------------------------------------------------------------------------
(* C22  A call of update_invoice_status for a stored invoice with a value   *)
(* outside the five statuses ends with a ValidationError and leaves every header as it is;  *)
(* and every stored header's status is one of the five.                    *)
C22_InvalidStatusValidationError ==
    [][ /\ ( StatusStep
             /\ \E i \in Invoices : i.InvoiceID = last'.invoice_id
             /\ last'.new_status \notin {"Draft", "Sent", "Paid", "Overdue", "Cancelled"} )
           => (last'.status = "ValidationError" /\ Invoices' = Invoices)
        /\ \A i \in Invoices' :
             i.Status \in {"Draft", "Sent", "Paid", "Overdue", "Cancelled"}
      ]_vars

-----------------------------------------------------------------------------
(* Vocabulary of the claims about the unbilled aggregation *)

\* the client's entries without a link row whose calendar date
\* week_start + (day_of_week - 1) lies in [start_date, end_date]
UnbilledInRange(entries, links, client_id, start_date, end_date) ==
    { t \in entries :
        /\ t.ClientID = client_id
        /\ \A l \in links : l.TimeEntryID # t.EntryID
        /\ start_date <= t.WeekStartDate + (t.DayOfWeek - 1)
        /\ t.WeekStartDate + (t.DayOfWeek - 1) <= end_date }

-----------------------------------------------------------------------------
(* C23  For every store, client and start_date <= end_date, the entry ids  *)
(* that get_hours_grouped_by_department returns over all groups are        *)
(* exactly those of the client's entries without a link row whose calendar *)
(* date lies in [start_date, end_date], endpoints included; each of them   *)
(* is in exactly one group, the one of its department (the one group       *)
(* without a department when it has none); no entry of another client is   *)
(* listed.                                                                 *)
C23_ExactlyUnbilledInRange ==
    last.op = "get_hours_grouped_by_department" =>
        LET r == last.result
            expected == UnbilledInRange(TimeEntries, InvoiceLineItems_TimeEntries,
                                        last.client_id, last.start_date, last.end_date)
        IN  /\ ListedIds(r) = { t.EntryID : t \in expected }
            /\ \A t \in expected :
                 /\ Cardinality({ g \in r.departments : t.EntryID \in g.EntryIDs }) = 1
                 /\ \A g \in r.departments :
                      t.EntryID \in g.EntryIDs
                      => g.ClientDepartmentID = t.ClientDepartmentID
            /\ Cardinality({ g \in r.departments : g.ClientDepartmentID = << >> }) <= 1
            /\ \A t \in TimeEntries :
                 t.ClientID # last.client_id => t.EntryID \notin ListedIds(r)

\* a call for client 1 whose range ends on the calendar date of an unbilled
\* entry and starts on that of another: it lists both, in two groups, and not
\* the billed entry in between
C23_Witness ==
    /\ last.op = "get_hours_grouped_by_department"
    /\ last.client_id = 1
    /\ \E t \in TimeEntries, u \in TimeEntries :
         /\ EntryDate(t) = last.start_date
         /\ EntryDate(u) = last.end_date
         /\ t.EntryID # u.EntryID
         /\ ListedIds(last.result) = {t.EntryID, u.EntryID}
    /\ Cardinality(last.result.departments) = 2
    /\ \E l \in InvoiceLineItems_TimeEntries :
         \E b \in TimeEntries :
            /\ b.EntryID = l.TimeEntryID
            /\ b.ClientID = 1
            /\ last.start_date <= EntryDate(b) /\ EntryDate(b) <= last.end_date

-----------------------------------------------------------------------------
(* C24  In every get_hours_grouped_by_department result each group's       *)
(* total_hours is the sum of the hours of the entries its entry ids name   *)
(* and its total_amount the sum of hours x the entry's resolved rate (the  *)
(* entry's own rate if present and positive, else its department's billing *)
(* rate if it has a department that defines one, else the client's default *)
(* rate); the top-level totals are the sums over the groups; and without   *)
(* an unbilled entry in range both totals are 0 and there is no group.     *)
C24_TotalsAreSums ==
    last.op = "get_hours_grouped_by_department" =>
        LET r == last.result
            rate(t) ==
                LET dept == { d \in ClientDepartments :
                                t.ClientDepartmentID = <<d.ClientDepartmentID>>
                                /\ d.BillingRate # << >> }
                IN  IF t.RateUsed # << >> /\ t.RateUsed[1] > 0 THEN t.RateUsed[1]
                    ELSE IF dept # {} THEN (CHOOSE d \in dept : TRUE).BillingRate[1]
                    ELSE (CHOOSE k \in Clients : k.ClientID = t.ClientID).DefaultRate
        IN  /\ \A g \in r.departments :
                 LET G == { t \in TimeEntries : t.EntryID \in g.EntryIDs }
                 IN  /\ g.TotalHours = SumOver([t \in G |-> t.HoursWorked], G)
                     /\ g.TotalAmount = SumOver([t \in G |-> t.HoursWorked * rate(t)], G)
            /\ r.total_hours =
                 SumOver([g \in r.departments |-> g.TotalHours], r.departments)
            /\ r.total_amount =
                 SumOver([g \in r.departments |-> g.TotalAmount], r.departments)
            /\ UnbilledInRange(TimeEntries, InvoiceLineItems_TimeEntries,
                               last.client_id, last.start_date, last.end_date) = {}
               => (r.total_hours = 0 /\ r.total_amount = 0 /\ r.departments = {})

-----------------------------------------------------------------------------
(* Vocabulary of the claims about the values the timesheet stores *)

\* day in 1..7, 0 <= hours <= 24, rate >= 0
InRange(day, hours, rate) ==
    /\ day >= 1 /\ day <= 7
    /\ hours >= 0 /\ hours <= 24
    /\ rate = << >> \/ rate[1] >= 0

\* the call is reported to the caller as a validation failure
ReportedInvalid(call) == call.status \in {"ValidationError", "422"}

-----------------------------------------------------------------------------
(* C25  Every save path validates before it writes: a single save          *)
(* (save_time_entry of either helper, POST /timesheet) with day outside    *)
(* 1..7, hours < 0, hours > 24 or rate < 0, and a save of several entries  *)
(* (save_day_entries, POST /timesheet/save-all) with such an entry, is     *)
(* reported as a validation failure and leaves TimeEntries as it was; and  *)
(* no stored row has such a value.                                         *)
C25_ValidatedBeforeWrite ==
    [][ /\ ( last'.op \in {"save_time_entry", "save_time_entry_desktop", "post_timesheet"}
             /\ ~InRange(last'.day, last'.hours, last'.rate) )
           => (ReportedInvalid(last') /\ TimeEntries' = TimeEntries)
        /\ ( last'.op = "save_day_entries"
             /\ \E i \in DOMAIN last'.entries :
                  ~InRange(last'.day, last'.entries[i].hours, last'.entries[i].rate) )
           => (ReportedInvalid(last') /\ TimeEntries' = TimeEntries)
        /\ ( last'.op = "post_timesheet_save_all"
             /\ \E i \in DOMAIN last'.entries :
                  ~InRange(last'.entries[i].day_of_week, last'.entries[i].hours_worked,
                           <<last'.entries[i].rate_used>>) )
           => (ReportedInvalid(last') /\ TimeEntries' = TimeEntries)
        /\ \A t \in TimeEntries' : InRange(t.DayOfWeek, t.HoursWorked, t.RateUsed)
      ]_vars

-----------------------------------------------------------------------------
(* C26  Every stored TimeEntries row's WeekStartDate is a Monday, the      *)
(* Monday of its own week: a save with another week_start is rejected or   *)
(* stored under date minus its weekday offset.                             *)
C26_WeekStartIsMonday ==
    \A t \in TimeEntries : t.WeekStartDate = t.WeekStartDate - (t.WeekStartDate % 7)

-----------------------------------------------------------------------------
(* C27  Billed entries are frozen: a TimeEntries row that a link row names *)
(* is still stored, with the same hours and rate, after every step (a call *)
(* of save_time_entry with hours > 0 or hours = 0, of save_day_entries or  *)
(* of delete_time_entry); it is not removed and not replaced by a new row. *)
C27_BilledFrozen ==
    [][ \A t \in TimeEntries :
          LinksOn(InvoiceLineItems_TimeEntries, t.EntryID) # {} => t \in TimeEntries'
      ]_vars

-----------------------------------------------------------------------------
-----------------------------------------------------------------------------
(* C28  Every client's DefaultRate is within 0 < rate <= 10000 and its     *)
(* PaymentTerms within 0..365 in every state, and an update that carries a *)
(* rate or terms outside these bounds is refused with a ValidationError    *)
(* and changes nothing.                                                    *)
RateInBounds(r) == r > 0 /\ r <= 10000

TermsInBounds(t) == t >= 0 /\ t <= 365

ClientStep ==
    /\ last'.op \in {"put_client", "update_client", "update_client_desktop"}
    /\ last' # last

C28_ClientBounds ==
    [][ /\ \A id \in DOMAIN DefaultRate' :
             RateInBounds(DefaultRate'[id]) /\ TermsInBounds(PaymentTerms'[id])
        /\ ( /\ ClientStep
             /\ \/ last'.rate # Null /\ ~RateInBounds(last'.rate[1])
                \/ last'.terms # Null /\ ~TermsInBounds(last'.terms[1]) )
           => ( /\ last'.status = "ValidationError"
                /\ DefaultRate' = DefaultRate
                /\ PaymentTerms' = PaymentTerms )
      ]_vars

-----------------------------------------------------------------------------
(* C30  Every operation on the shared connection ends committed or rolled  *)
(* back: when a call has returned, no line item or link it wrote is left   *)
(* pending on its connection, and no step makes durable a row that a call  *)
(* which had already returned left pending.                                *)
PendingOn(c, rows) == { r \in rows : r.tx = c }

C30_CommittedOrRolledBack ==
    [][ \A c \in Conns :
          /\ pc'[c] = "idle"
                => /\ PendingOn(c, InvoiceLineItems') = {}
                   /\ PendingOn(c, InvoiceLineItems_TimeEntries') = {}
          /\ pc[c] = "idle"
                => /\ \A r \in PendingOn(c, InvoiceLineItems) :
                          [r EXCEPT !.tx = Committed] \notin InvoiceLineItems'
                   /\ \A r \in PendingOn(c, InvoiceLineItems_TimeEntries) :
                          [r EXCEPT !.tx = Committed] \notin InvoiceLineItems_TimeEntries'
      ]_vars

=============================================================================
